---- MODULE Spec2Model ----
(***************************************************************************)
(* A model of argos-translate's translation graph and composition engine   *)
(* (src/argostranslate/translate.py): the graph built by                   *)
(* get_installed_languages from the installed packages, and the            *)
(* hypotheses/translate operations of the translation classes.             *)
(*                                                                         *)
(* Python objects are modelled by value plus an identity where the code     *)
(* depends on identity: a Language object is named by the                  *)
(* get_installed_languages call that created it (gen) and its code, and    *)
(* the heap maps each Language object to its translations_from list.       *)
(* Language.translations_to is only ever appended to and never read by the *)
(* code, so it is not part of the state.                                   *)
(***************************************************************************)
EXTENDS Integers, Sequences, FiniteSets, TLC

(***************************************************************************)
(* Bounds of the model.                                                    *)
(***************************************************************************)
\* install/uninstall operations in one process lifetime
MaxOps == 3
\* get_installed_languages calls in one process lifetime
MaxCalls == 2
\* characters in an input text
MaxLen == 3
\* characters of the string handed to chunk
MaxChunkLen == 4
\* characters of a chunk_translation output
MaxProbeLen == 2
\* children of a tag that holds tags
MaxChildren == 2

\* the default num_hypotheses of hypotheses()
DefaultNumHypotheses == 4

(***************************************************************************)
(* Packages: the metadata get_installed_languages reads.  dir names the    *)
(* package directory.  from_code of an sbd package is None ("").           *)
(***************************************************************************)
TranslatePackage(d, f, t) ==
    [dir |-> d, type |-> "translate", from_code |-> f, to_code |-> t, from_codes |-> {}]

SbdPackage(d, codes) ==
    [dir |-> d, type |-> "sbd", from_code |-> "", to_code |-> "", from_codes |-> codes]

\* A package directory without metadata.json: Package.__init__ raises
\* before any field is set.
BrokenPackage(d) ==
    [dir |-> d, type |-> "no metadata.json", from_code |-> "", to_code |-> "",
     from_codes |-> {}]

\* The packages that can be installed in the model.
AvailablePackages ==
    { TranslatePackage(1, "en", "es"),
      TranslatePackage(2, "es", "en"),
      TranslatePackage(3, "es", "fr"),
      TranslatePackage(4, "fr", "de"),
      TranslatePackage(5, "es", "es"),
      SbdPackage(6, {"en"}),
      BrokenPackage(7) }

Codes == {"en", "es", "fr", "de"}

\* Position of a language name in Python's string order
\* ("English" < "French" < "German" < "Spanish").
NameRank(code) ==
    CASE code = "en" -> 1
      [] code = "fr" -> 2
      [] code = "de" -> 3
      [] code = "es" -> 4

VARIABLES
    cache,                 \* CachedTranslation.cache of the instance under call
    last,                  \* the last hypotheses/translate call and what it returned
    packages,              \* the installed package directories, in iterdir order
    stanza_available,      \* settings.stanza_available
    installed_translates,  \* translate.installed_translates
    translations_from,     \* heap: Language object -> its translations_from list
    languages,             \* the list returned by the last get_installed_languages
    lastPackages,          \* the package list that call read
    calls,                 \* get_installed_languages calls so far
    ops,                   \* install/uninstall operations so far
    raised,                \* what the last get_installed_languages call raised
    lookup,                \* the last get_translation_from_codes call and its outcome
    chunk_call,            \* the frame of the chunk(q, chunk_translation) call
    tags_call,             \* the translate_tags(translation, tag) call and its result
    inference_call,        \* the fewshot.parse_inference(output) call and its result
    hypothesis_objects,    \* the Hypothesis objects constructed so far, by identity
    eq_call,               \* the last comparison of two Hypothesis objects
    get_call,              \* the frame of the networking.get(url, retry_count) call
    threads,               \* each caller's frame in CachedTranslation.hypotheses on the shared instance
    translator,            \* PackageTranslation.translator of the shared instance
    engines_built,         \* ctranslate2.Translator objects constructed so far
    pivot,                 \* the frame of the pivot loops of get_installed_languages
    gui_window,            \* GUIWindow: worker_thread, queued_translation and the text of right_textEdit
    gui_threads,           \* the TranslationThread objects created so far, by identity
    gui_events,            \* signals queued for the GUI thread, in emission order
    failing_call,          \* the last hypotheses call made with an engine that may raise
    split_call             \* the frame of the sentence-splitting loop of apply_packaged_translation

graphVars == <<packages, stanza_available, installed_translates,
               translations_from, languages, lastPackages, calls, ops, raised,
               lookup>>

translateVars == <<cache, last>>

\* the state of the modules beside the graph and the translations
fewshotVars == <<inference_call>>

objectVars == <<hypothesis_objects, eq_call>>

netVars == <<get_call>>

threadVars == <<threads, translator, engines_built>>

pivotVars == <<pivot>>

guiVars == <<gui_window, gui_threads, gui_events>>

raiseVars == <<failing_call>>

splitVars == <<split_call>>

libraryVars == <<chunk_call, tags_call, inference_call, hypothesis_objects,
                 eq_call,
                 netVars,
                 threadVars,
                 pivotVars,
                 guiVars,
                 raiseVars,
                 splitVars>>

vars == <<cache, last, packages, stanza_available, installed_translates,
          translations_from, languages, lastPackages, calls, ops, raised,
          lookup, chunk_call, tags_call, inference_call,
          hypothesis_objects, eq_call,
          get_call,
          threads, translator, engines_built,
          pivot,
          gui_window, gui_threads, gui_events,
          failing_call,
          split_call>>

(***************************************************************************)
(* Objects.                                                                *)
(***************************************************************************)
Lang(g, c) == [gen |-> g, code |-> c]

NoLang == Lang(0, "")

\* Python's None, as returned by Language.get_translation.
None == [kind |-> "None", from_lang |-> NoLang, to_lang |-> NoLang,
         key |-> <<>>, pkg |-> 0, parts |-> <<>>]

\* f"{pkg.from_code}-{pkg.to_code}"
PackageKey(pkg) == <<pkg.from_code, pkg.to_code>>

\* CachedTranslation(PackageTranslation(from_lang, to_lang, pkg))
CachedTranslation(from_lang, to_lang, pkg) ==
    [kind |-> "cached", from_lang |-> from_lang, to_lang |-> to_lang,
     key |-> PackageKey(pkg), pkg |-> pkg.dir, parts |-> <<>>]

IdentityTranslation(lang) ==
    [kind |-> "identity", from_lang |-> lang, to_lang |-> lang,
     key |-> <<>>, pkg |-> 0, parts |-> <<>>]

CompositeTranslation(t1, t2) ==
    [kind |-> "composite", from_lang |-> t1.from_lang, to_lang |-> t2.to_lang,
     key |-> <<>>, pkg |-> 0, parts |-> <<t1, t2>>]

\* Language.get_translation over a translations_from list: the first
\* translation whose to_lang.code is the wanted code, else None.
RECURSIVE FirstTo(_, _, _)
FirstTo(tf, code, i) ==
    IF i > Len(tf) THEN None
    ELSE IF tf[i].to_lang.code = code THEN tf[i]
    ELSE FirstTo(tf, code, i + 1)

get_translation(tf, code) == FirstTo(tf, code, 1)

(***************************************************************************)
(* get_installed_languages, OPENNMT provider.                              *)
(***************************************************************************)
SbdAvailableCodes(pkgs) ==
    UNION { pkgs[i].from_codes : i \in { j \in 1..Len(pkgs) : pkgs[j].type = "sbd" } }

\* lines 512-525: the sbd filter (only without stanza), then the type filter
FilterPackages(pkgs, stanza) ==
    LET HasSbd(p) == p.from_code \in SbdAvailableCodes(pkgs)
        IsTranslate(p) == p.type = "translate"
        first == IF stanza THEN pkgs ELSE SelectSeq(pkgs, HasSbd)
    IN  SelectSeq(first, IsTranslate)

RegistryFind(reg, key) ==
    LET hits == { i \in 1..Len(reg) : reg[i].package_key = key }
    IN  IF hits = {} THEN 0 ELSE CHOOSE i \in hits : \A j \in hits : i <= j

InSeq(x, s) == \E i \in 1..Len(s) : s[i] = x

\* A loader that takes a package for a translation in both directions.
RECURSIVE LoadPackagesBothWays(_, _, _, _, _, _)
LoadPackagesBothWays(pkgs, i, g, order, heap, reg) ==
    IF i > Len(pkgs) THEN [order |-> order, heap |-> heap, reg |-> reg]
    ELSE
      LET pkg == pkgs[i]
          order1 == IF InSeq(pkg.from_code, order) THEN order
                    ELSE Append(order, pkg.from_code)
          order2 == IF InSeq(pkg.to_code, order1) THEN order1
                    ELSE Append(order1, pkg.to_code)
          from_lang == Lang(g, pkg.from_code)
          to_lang == Lang(g, pkg.to_code)
          heap1 == [l \in DOMAIN heap \cup {from_lang, to_lang} |->
                       IF l \in DOMAIN heap THEN heap[l] ELSE <<>>]
          heap2 == [heap1 EXCEPT ![from_lang] =
                       Append(@, CachedTranslation(from_lang, to_lang, pkg))]
          heap3 == [heap2 EXCEPT ![to_lang] =
                       Append(@, CachedTranslation(to_lang, from_lang, pkg))]
      IN  LoadPackagesBothWays(pkgs, i + 1, g, order2, heap3, reg)

\* A loader that gives a language the translation of its first package
\* only.
RECURSIVE LoadPackagesOnePerSource(_, _, _, _, _, _)
LoadPackagesOnePerSource(pkgs, i, g, order, heap, reg) ==
    IF i > Len(pkgs) THEN [order |-> order, heap |-> heap, reg |-> reg]
    ELSE
      LET pkg == pkgs[i]
          order1 == IF InSeq(pkg.from_code, order) THEN order
                    ELSE Append(order, pkg.from_code)
          order2 == IF InSeq(pkg.to_code, order1) THEN order1
                    ELSE Append(order1, pkg.to_code)
          from_lang == Lang(g, pkg.from_code)
          to_lang == Lang(g, pkg.to_code)
          heap1 == [l \in DOMAIN heap \cup {from_lang, to_lang} |->
                       IF l \in DOMAIN heap THEN heap[l] ELSE <<>>]
          heap2 == IF heap1[from_lang] # <<>> THEN heap1
                   ELSE [heap1 EXCEPT ![from_lang] =
                           Append(@, CachedTranslation(from_lang, to_lang, pkg))]
      IN  LoadPackagesOnePerSource(pkgs, i + 1, g, order2, heap2, reg)

\* lines 527-554: (order of language_of_code, heap, registry) after the
\* packages pkgs[i..] are loaded
RECURSIVE LoadPackages(_, _, _, _, _, _)
LoadPackages(pkgs, i, g, order, heap, reg) ==
    IF i > Len(pkgs) THEN [order |-> order, heap |-> heap, reg |-> reg]
    ELSE
      LET pkg == pkgs[i]
          order1 == IF InSeq(pkg.from_code, order) THEN order
                    ELSE Append(order, pkg.from_code)
          order2 == IF InSeq(pkg.to_code, order1) THEN order1
                    ELSE Append(order1, pkg.to_code)
          from_lang == Lang(g, pkg.from_code)
          to_lang == Lang(g, pkg.to_code)
          heap1 == [l \in DOMAIN heap \cup {from_lang, to_lang} |->
                       IF l \in DOMAIN heap THEN heap[l] ELSE <<>>]
          found == RegistryFind(reg, PackageKey(pkg))
          translation_to_add ==
              IF found = 0 THEN CachedTranslation(from_lang, to_lang, pkg)
              ELSE reg[found].cached_translation
          reg1 == IF found = 0
                  THEN Append(reg, [package_key |-> PackageKey(pkg),
                                    cached_translation |-> translation_to_add])
                  ELSE reg
          heap2 == [heap1 EXCEPT ![from_lang] = Append(@, translation_to_add)]
      IN  LoadPackages(pkgs, i + 1, g, order2, heap2, reg1)

\* lines 559-562
RECURSIVE AddIdentities(_, _, _, _)
AddIdentities(order, i, g, heap) ==
    IF i > Len(order) THEN heap
    ELSE AddIdentities(order, i + 1, g,
            [heap EXCEPT ![Lang(g, order[i])] =
                Append(@, IdentityTranslation(Lang(g, order[i])))])

\* lines 570-582: one pass of the two nested for loops for language, both
\* of which read the lists as they are at that moment (a Python list
\* iterator sees what is appended while it runs).
RECURSIVE PivotPass(_, _, _, _, _)
PivotPass(heap, language, i, j, added) ==
    IF i > Len(heap[language]) THEN [heap |-> heap, added |-> added]
    ELSE
      LET translation == heap[language][i]
          inner == heap[translation.to_lang]
      IN  IF j > Len(inner) THEN PivotPass(heap, language, i + 1, 1, added)
          ELSE
            LET translation_2 == inner[j]
            IN  IF get_translation(heap[language], translation_2.to_lang.code) = None
                THEN PivotPass(
                       [heap EXCEPT ![language] =
                           Append(@, CompositeTranslation(translation, translation_2))],
                       language, i, j + 1, TRUE)
                ELSE PivotPass(heap, language, i, j + 1, added)

\* A pivot loop that walks a copy of language.translations_from made
\* before the walk, once: it never visits the composites it appends.
RECURSIVE SnapshotPass(_, _, _, _, _)
SnapshotPass(heap, language, i, j, limit) ==
    IF i > limit THEN heap
    ELSE
      LET translation == heap[language][i]
          inner == heap[translation.to_lang]
      IN  IF j > Len(inner) THEN SnapshotPass(heap, language, i + 1, 1, limit)
          ELSE
            LET translation_2 == inner[j]
            IN  IF get_translation(heap[language], translation_2.to_lang.code) = None
                THEN SnapshotPass(
                       [heap EXCEPT ![language] =
                           Append(@, CompositeTranslation(translation, translation_2))],
                       language, i, j + 1, limit)
                ELSE SnapshotPass(heap, language, i, j + 1, limit)

PivotLanguageSnapshot(heap, language) ==
    SnapshotPass(heap, language, 1, 1, Len(heap[language]))

\* lines 567-569: while keep_adding_translations
RECURSIVE PivotLanguage(_, _)
PivotLanguage(heap, language) ==
    LET pass == PivotPass(heap, language, 1, 1, FALSE)
    IN  IF pass.added THEN PivotLanguage(pass.heap, language) ELSE pass.heap

\* line 566: for language in languages
RECURSIVE PivotClosure(_, _, _, _)
PivotClosure(order, i, g, heap) ==
    IF i > Len(order) THEN heap
    ELSE PivotClosure(order, i + 1, g, PivotLanguage(heap, Lang(g, order[i])))

\* lines 609-620: English first, the others sorted by name (list.sort is
\* stable; the names of distinct codes are distinct here)
RECURSIVE InsertByName(_, _)
InsertByName(sorted, code) ==
    IF sorted = <<>> THEN <<code>>
    ELSE IF NameRank(code) < NameRank(Head(sorted)) THEN <<code>> \o sorted
    ELSE <<Head(sorted)>> \o InsertByName(Tail(sorted), code)

RECURSIVE SortByName(_)
SortByName(codes) ==
    IF codes = <<>> THEN <<>>
    ELSE InsertByName(SortByName(SubSeq(codes, 1, Len(codes) - 1)), codes[Len(codes)])

EnglishFirst(order) ==
    LET NotEn(c) == c # "en"
    IN  IF InSeq("en", order)
        THEN <<"en">> \o SortByName(SelectSeq(order, NotEn))
        ELSE SortByName(order)

\* get_installed_languages as a function of what it reads: the installed
\* packages, settings.stanza_available, installed_translates and the heap.
\* g names the Language objects this call creates.
BuildGraph(pkgs, stanza, g, heap, reg) ==
    LET loaded == LoadPackages(FilterPackages(pkgs, stanza), 1, g, <<>>, heap, reg)
        withIds == AddIdentities(loaded.order, 1, g, loaded.heap)
        closed == PivotClosure(loaded.order, 1, g, withIds)
        sorted == EnglishFirst(loaded.order)
    IN  [languages |-> [k \in 1..Len(sorted) |-> Lang(g, sorted[k])],
         heap |-> closed,
         reg |-> loaded.reg]

EmptyHeap == [l \in {} |-> <<>>]

\* no exception
NoException == ""

(***************************************************************************)
(* The process: packages are installed and uninstalled, and                *)
(* get_installed_languages is called.                                      *)
(***************************************************************************)
\* The process at its start: no package, an empty registry, no Language.
NoGraph ==
    [packages |-> <<>>, installed_translates |-> <<>>,
     translations_from |-> EmptyHeap, languages |-> <<>>]

InsertAt(s, i, x) == SubSeq(s, 1, i - 1) \o <<x>> \o SubSeq(s, i, Len(s))

RemoveAt(s, i) == SubSeq(s, 1, i - 1) \o SubSeq(s, i + 1, Len(s))

\* package.install_from_path: a new package directory appears; iterdir
\* may list it anywhere.
Install ==
    /\ ops < MaxOps
    /\ \E p \in AvailablePackages :
         /\ ~InSeq(p, packages)
         /\ \E i \in 1..(Len(packages) + 1) : packages' = InsertAt(packages, i, p)
    /\ ops' = ops + 1
    /\ UNCHANGED <<stanza_available, installed_translates, translations_from,
                   languages, lastPackages, calls, raised, lookup>>
    /\ UNCHANGED <<translateVars, libraryVars>>

\* package.uninstall: the package directory is removed.
Uninstall ==
    /\ ops < MaxOps
    /\ \E i \in 1..Len(packages) : packages' = RemoveAt(packages, i)
    /\ ops' = ops + 1
    /\ UNCHANGED <<stanza_available, installed_translates, translations_from,
                   languages, lastPackages, calls, raised, lookup>>
    /\ UNCHANGED <<translateVars, libraryVars>>

\* package.get_installed_packages builds a Package for every directory
\* (package.py 311-313); Package.__init__ raises FileNotFoundError for a
\* directory without metadata.json (188-191) and nothing on the way to the
\* caller of get_installed_languages catches it (translate.py 511).
PackageError(pkgs) ==
    IF \E i \in 1..Len(pkgs) : pkgs[i].type = "no metadata.json"
    THEN "FileNotFoundError" ELSE NoException

GetInstalledLanguages ==
    /\ calls < MaxCalls
    /\ raised' = PackageError(packages)
    /\ IF PackageError(packages) # NoException
       THEN UNCHANGED <<languages, translations_from, installed_translates,
                        lastPackages>>
       ELSE /\ LET built == BuildGraph(packages, stanza_available, calls + 1,
                                       translations_from, installed_translates)
               IN  /\ languages' = built.languages
                   /\ translations_from' = built.heap
                   /\ installed_translates' = built.reg
            /\ lastPackages' = packages
    /\ calls' = calls + 1
    /\ UNCHANGED <<packages, stanza_available, ops, lookup>>
    /\ UNCHANGED <<translateVars, libraryVars>>

GraphNext == Install \/ Uninstall \/ GetInstalledLanguages

\* The codes get_translation_from_codes is called with; no package has "xx".
LookupCodes == {"en", "fr", "xx"}

NoLookup == [pc |-> "idle", from_code |-> "", to_code |-> "", result |-> None,
             raised |-> NoException]

\* get_language_from_code: next(filter(code == ...), None) over the list
\* a get_installed_languages call of generation g returned
LanguageFromCode(built_languages, code) ==
    LET hits == { k \in 1..Len(built_languages) : built_languages[k].code = code }
    IN  IF hits = {} THEN NoLang
        ELSE built_languages[CHOOSE k \in hits : \A o \in hits : k <= o]

\* get_translation_from_codes(from_code, to_code): each of the two
\* get_language_from_code calls runs get_installed_languages; then
\* from_lang.get_translation(to_lang).  None has no get_translation and no
\* code: AttributeError.
GetTranslationFromCodes ==
    /\ calls + 2 <= MaxCalls
    /\ \E from_code \in LookupCodes, to_code \in LookupCodes :
         IF PackageError(packages) # NoException
         THEN /\ raised' = PackageError(packages)
              /\ lookup' = [pc |-> "done", from_code |-> from_code,
                            to_code |-> to_code, result |-> None,
                            raised |-> PackageError(packages)]
              /\ calls' = calls + 1
              /\ UNCHANGED <<languages, translations_from, installed_translates,
                             lastPackages>>
         ELSE
           \E first \in {BuildGraph(packages, stanza_available, calls + 1,
                                     translations_from, installed_translates)} :
           \E second \in {BuildGraph(packages, stanza_available, calls + 2,
                                      first.heap, first.reg)} :
             LET from_lang == LanguageFromCode(first.languages, from_code)
                 to_lang == LanguageFromCode(second.languages, to_code)
                 error == IF from_lang = NoLang \/ to_lang = NoLang
                          THEN "AttributeError" ELSE NoException
             IN  /\ lookup' = [pc |-> "done", from_code |-> from_code,
                               to_code |-> to_code,
                               result |-> IF error # NoException THEN None
                                          ELSE get_translation(second.heap[from_lang],
                                                               to_lang.code),
                               raised |-> error]
                 /\ languages' = second.languages
                 /\ translations_from' = second.heap
                 /\ installed_translates' = second.reg
                 /\ lastPackages' = packages
                 /\ raised' = NoException
                 /\ calls' = calls + 2
    /\ UNCHANGED <<packages, stanza_available, ops>>
    /\ UNCHANGED <<translateVars, libraryVars>>

LookupNext == Install \/ Uninstall \/ GetTranslationFromCodes

(***************************************************************************)
(* chunk.py: chunk(q, chunk_translation).  Strings are sequences of        *)
(* characters; a ratio is a pair <<numerator, denominator>>.               *)
(***************************************************************************)
Space == " "

ChunkAlphabet == {"a", Space}

ProbeAlphabet == {"a", "b", Space}

StringsUpTo(alphabet, n) == UNION { [1..k -> alphabet] : k \in 0..n }

\* the strings q that chunk is called with
ChunkInputs == StringsUpTo(ChunkAlphabet, MaxChunkLen)

\* what a chunk_translation may return
ProbeOutputs == StringsUpTo(ProbeAlphabet, MaxProbeLen)

\* len(s.strip()) > 0
StripNonEmpty(str) == \E k \in DOMAIN str : str[k] # Space

\* how far a[i..] and b[j..] agree inside the two ranges
RECURSIVE CommonPrefix(_, _, _, _, _, _)
CommonPrefix(a, i, ahi, b, j, bhi) ==
    IF i < ahi /\ j < bhi /\ a[i] = b[j]
    THEN 1 + CommonPrefix(a, i + 1, ahi, b, j + 1, bhi)
    ELSE 0

\* SequenceMatcher.find_longest_match over a[alo..ahi-1], b[blo..bhi-1]:
\* the longest common block, the earliest in a, then the earliest in b
find_longest_match(a, alo, ahi, b, blo, bhi) ==
    LET blocks == { <<p[1], p[2], CommonPrefix(a, p[1], ahi, b, p[2], bhi)>> :
                      p \in { x \in (alo..(ahi - 1)) \X (blo..(bhi - 1)) :
                                a[x[1]] = b[x[2]] } }
        sizes == { m[3] : m \in blocks }
        size == CHOOSE k \in sizes : \A o \in sizes : k >= o
        starts == { m[1] : m \in { x \in blocks : x[3] = size } }
        i == CHOOSE k \in starts : \A o \in starts : k <= o
        others == { m[2] : m \in { x \in blocks : x[3] = size /\ x[1] = i } }
        j == CHOOSE k \in others : \A o \in others : k <= o
    IN  IF blocks = {} THEN <<alo, blo, 0>> ELSE <<i, j, size>>

\* SequenceMatcher.get_matching_blocks: the sizes of the blocks, summed
RECURSIVE MatchCount(_, _, _, _, _, _)
MatchCount(a, alo, ahi, b, blo, bhi) ==
    LET m == find_longest_match(a, alo, ahi, b, blo, bhi)
    IN  IF m[3] = 0 THEN 0
        ELSE m[3] + MatchCount(a, alo, m[1], b, blo, m[2])
                  + MatchCount(a, m[1] + m[3], ahi, b, m[2] + m[3], bhi)

\* SequenceMatcher.ratio(): 2.0 * matches / length, 1.0 for two empty strings
Ratio(a, b) ==
    IF Len(a) + Len(b) = 0 THEN <<1, 1>>
    ELSE <<2 * MatchCount(a, 1, Len(a) + 1, b, 1, Len(b) + 1), Len(a) + Len(b)>>

\* score > best_substring_score
Greater(score, best) == score[1] * best[2] > best[1] * score[2]

\* The first candidate is always taken (best_substring_score = None).
InitialBestNone(unchunked_input) ==
    [index |-> Len(unchunked_input), score |-> <<-1, 1>>]

\* lines 15-16
InitialBest(unchunked_input) ==
    [index |-> Len(unchunked_input), score |-> <<1, 2>>]

\* lines 17-26: for i in range(len(translated_chunk) * 2)
RECURSIVE BestSubstringFrom(_, _, _, _)
BestSubstringFrom(unchunked_input, translated_chunk, i, best) ==
    IF i >= 2 * Len(translated_chunk) \/ i > Len(unchunked_input) THEN best
    ELSE LET score == Ratio(SubSeq(unchunked_input, 1, i), translated_chunk)
         IN  BestSubstringFrom(unchunked_input, translated_chunk, i + 1,
               IF Greater(score, best.score)
               THEN [index |-> i, score |-> score] ELSE best)

best_substring_index(unchunked_input, translated_chunk) ==
    BestSubstringFrom(unchunked_input, translated_chunk, 0,
                      InitialBest(unchunked_input)).index

NoChunk == [pc |-> "idle", q |-> <<>>, probe |-> "none",
            unchunked_input |-> <<>>, sentences |-> <<>>]

\* chunk(q, chunk_translation) is called: lines 7-8.  The probe is any
\* function, or the one that returns "" for every input.
ChunkCall ==
    /\ chunk_call.pc \in {"idle", "done"}
    /\ \E q \in ChunkInputs, probe \in {"any", "empty"} :
         chunk_call' = [pc |-> "loop", q |-> q, probe |-> probe,
                        unchunked_input |-> q, sentences |-> <<>>]
    /\ UNCHANGED <<graphVars, translateVars, tags_call, fewshotVars, objectVars,
                   netVars,
                   threadVars,
                   pivotVars,
                   guiVars,
                   raiseVars,
                   splitVars>>

\* one pass of the while loop, lines 9-33.  No input is probed twice in a
\* call, so a fresh choice of the probe's output each pass covers every
\* function.  A call appends at most len(q) sentences; the guard stops the
\* exploration there.
ChunkIterate ==
    /\ chunk_call.pc = "loop"
    /\ StripNonEmpty(chunk_call.unchunked_input)
    /\ Len(chunk_call.sentences) <= MaxChunkLen
    /\ \E translated_chunk \in
            (IF chunk_call.probe = "empty" THEN {<<>>} ELSE ProbeOutputs) :
         LET unchunked_input == chunk_call.unchunked_input
             index == best_substring_index(unchunked_input, translated_chunk)
         IN  chunk_call' =
               [chunk_call EXCEPT
                  !.sentences = Append(@, SubSeq(unchunked_input, 1, index)),
                  !.unchunked_input =
                      SubSeq(unchunked_input, index + 1, Len(unchunked_input))]
    /\ UNCHANGED <<graphVars, translateVars, tags_call, fewshotVars, objectVars,
                   netVars,
                   threadVars,
                   pivotVars,
                   guiVars,
                   raiseVars,
                   splitVars>>

\* the while condition is false: return sentences
ChunkReturn ==
    /\ chunk_call.pc = "loop"
    /\ ~StripNonEmpty(chunk_call.unchunked_input)
    /\ chunk_call' = [chunk_call EXCEPT !.pc = "done"]
    /\ UNCHANGED <<graphVars, translateVars, tags_call, fewshotVars, objectVars,
                   netVars,
                   threadVars,
                   pivotVars,
                   guiVars,
                   raiseVars,
                   splitVars>>

ChunkNext == ChunkCall \/ ChunkIterate \/ ChunkReturn

(***************************************************************************)
(* tags.py.  A child of a tag is a str or a tag; a str is a record with    *)
(* the one field str, a tag a record with children and translateable.      *)
(* translate_tags changes the tree in place and returns it; the trees have *)
(* no shared nodes, so the tree returned is the value of the tree after.   *)
(***************************************************************************)
ARGOS_OPEN_TAG == <<"<", "a", "r", "g", "o", "s", "-", "t", "a", "g", ">">>

ARGOS_CLOSE_TAG == <<"<", "/", "a", "r", "g", "o", "s", "-", "t", "a", "g", ">">>

Str(chars) == [str |-> chars]

Tag(children, translateable) ==
    [children |-> children, translateable |-> translateable]

IsStr(node) == "str" \in DOMAIN node

\* the None that unflatten_tag and translate_tag_chunk return
NoneTag == [none |-> TRUE]

IsNone(node) == "none" \in DOMAIN node

\* Tag.text: the texts of the children, joined
RECURSIVE TagText(_)
RECURSIVE ChildrenText(_, _)
TagText(tag) == IF IsStr(tag) THEN tag.str ELSE ChildrenText(tag.children, 1)

ChildrenText(children, i) ==
    IF i > Len(children) THEN <<>>
    ELSE TagText(children[i]) \o ChildrenText(children, i + 1)

RECURSIVE depth(_)
RECURSIVE MaxDepth(_, _)
depth(tag) ==
    IF IsStr(tag) THEN 0
    ELSE IF Len(tag.children) = 0 THEN 0
    ELSE MaxDepth(tag.children, 1) + 1

\* max([depth(t) for t in tag.children[i..]])
MaxDepth(children, i) ==
    IF i = Len(children) THEN depth(children[i])
    ELSE LET here == depth(children[i])
             rest == MaxDepth(children, i + 1)
         IN  IF here >= rest THEN here ELSE rest

RECURSIVE is_same_structure(_, _)
is_same_structure(tag1, tag2) ==
    IF IsStr(tag1) /\ IsStr(tag2) THEN TRUE
    ELSE IF IsStr(tag1) \/ IsStr(tag2) THEN FALSE
    ELSE IF Len(tag1.children) # Len(tag2.children) THEN FALSE
    ELSE \A i \in DOMAIN tag1.children :
           is_same_structure(tag1.children[i], tag2.children[i])

RECURSIVE FlattenFrom(_, _)
FlattenFrom(children, i) ==
    IF i > Len(children) THEN <<>>
    ELSE (IF IsStr(children[i]) THEN children[i].str
          ELSE ARGOS_OPEN_TAG \o TagText(children[i]) \o ARGOS_CLOSE_TAG)
           \o FlattenFrom(children, i + 1)

flatten_tag(tag) == FlattenFrom(tag.children, 1)

\* str.find: the first index (from 0) where pattern starts, else -1
Find(chars, pattern) ==
    LET hits == { i \in 0..(Len(chars) - Len(pattern)) :
                    SubSeq(chars, i + 1, i + Len(pattern)) = pattern }
    IN  IF hits = {} THEN -1 ELSE CHOOSE i \in hits : \A o \in hits : i <= o

\* chars[lo:hi] for lo >= 0; a negative hi counts from the end
PySlice(chars, lo, hi) ==
    LET back == IF Len(chars) + hi < 0 THEN 0 ELSE Len(chars) + hi
        end == IF hi < 0 THEN back ELSE IF hi > Len(chars) THEN Len(chars) ELSE hi
    IN  IF lo >= end THEN <<>> ELSE SubSeq(chars, lo + 1, end)

\* lines 137-152: the while loop of unflatten_tag
RECURSIVE UnflattenFrom(_, _)
UnflattenFrom(flat_tag, children) ==
    IF Len(flat_tag) = 0 THEN children
    ELSE
      LET open_tag_index == Find(flat_tag, ARGOS_OPEN_TAG)
      IN  IF open_tag_index = -1 THEN Append(children, Str(flat_tag))
          ELSE IF open_tag_index > 0
          THEN UnflattenFrom(PySlice(flat_tag, open_tag_index, Len(flat_tag)),
                             Append(children, Str(PySlice(flat_tag, 0, open_tag_index))))
          ELSE
            LET closing_tag_index == Find(flat_tag, ARGOS_CLOSE_TAG)
                tag_inner_text ==
                    PySlice(flat_tag, open_tag_index + Len(ARGOS_OPEN_TAG),
                            closing_tag_index)
            IN  UnflattenFrom(
                  PySlice(flat_tag, closing_tag_index + Len(ARGOS_CLOSE_TAG),
                          Len(flat_tag)),
                  Append(children, Tag(<<Str(tag_inner_text)>>, TRUE)))

unflatten_tag(flat_tag) ==
    LET unflattened == Tag(UnflattenFrom(flat_tag, <<>>), TRUE)
    IN  IF depth(unflattened) # 2 THEN NoneTag ELSE unflattened

\* The translations translate_tags is called with, as functions on strings:
\* the identity; one that turns q into Q and keeps the argos tags; one that
\* drops the argos tags; one that swaps open and close tags; one that
\* returns "" for every input.
TagTranslations == {"identity", "upper", "strip", "swap", "empty"}

StartsAt(chars, i, pattern) ==
    /\ i + Len(pattern) - 1 <= Len(chars)
    /\ SubSeq(chars, i, i + Len(pattern) - 1) = pattern

RECURSIVE Rewrite(_, _, _)
Rewrite(translation, chars, i) ==
    IF i > Len(chars) THEN <<>>
    ELSE IF StartsAt(chars, i, ARGOS_OPEN_TAG)
    THEN (CASE translation = "strip" -> <<>>
            [] translation = "swap" -> ARGOS_CLOSE_TAG
            [] OTHER -> ARGOS_OPEN_TAG)
           \o Rewrite(translation, chars, i + Len(ARGOS_OPEN_TAG))
    ELSE IF StartsAt(chars, i, ARGOS_CLOSE_TAG)
    THEN (CASE translation = "strip" -> <<>>
            [] translation = "swap" -> ARGOS_OPEN_TAG
            [] OTHER -> ARGOS_CLOSE_TAG)
           \o Rewrite(translation, chars, i + Len(ARGOS_CLOSE_TAG))
    ELSE <<IF translation = "upper" /\ chars[i] = "q" THEN "Q" ELSE chars[i]>>
           \o Rewrite(translation, chars, i + 1)

\* translation.translate(chars)
TagTranslate(translation, chars) ==
    CASE translation = "identity" -> chars
      [] translation = "empty" -> <<>>
      [] OTHER -> Rewrite(translation, chars, 1)

\* ratio < 1 / GOLDEN_RATIO, that is (2 * ratio + 1)^2 < 5
BelowGoldenRatio(ratio) ==
    (2 * ratio[1] + ratio[2]) * (2 * ratio[1] + ratio[2]) < 5 * ratio[2] * ratio[2]

\* lines 209-217: the translated values copied into the tag
CopyChildren(tag, translated_tag_attempt) ==
    [tag EXCEPT !.children =
       [i \in DOMAIN tag.children |->
          IF ~IsStr(tag.children[i]) /\ ~IsStr(translated_tag_attempt.children[i])
          THEN [tag.children[i] EXCEPT
                  !.children = translated_tag_attempt.children[i].children]
          ELSE IF IsStr(tag.children[i]) THEN translated_tag_attempt.children[i]
          ELSE tag.children[i]]]

\* The unflattened translation is returned as it is.
translate_tag_chunk_attempt(translation, tag) ==
    unflatten_tag(TagTranslate(translation, flatten_tag(tag)))

translate_tag_chunk(translation, tag) ==
    LET translated_prompt == TagTranslate(translation, flatten_tag(tag))
        translated_tag_attempt == unflatten_tag(translated_prompt)
    IN  IF IsNone(translated_tag_attempt) THEN NoneTag
        ELSE IF ~is_same_structure(tag, translated_tag_attempt) THEN NoneTag
        ELSE
          LET translated_without_tags == TagTranslate(translation, TagText(tag))
              similarity == Ratio(TagText(translated_tag_attempt),
                                  translated_without_tags)
          IN  IF BelowGoldenRatio(similarity) THEN NoneTag
              ELSE CopyChildren(tag, translated_tag_attempt)

RECURSIVE translate_tags(_, _)
translate_tags(translation, tag) ==
    IF IsStr(tag) THEN Str(TagTranslate(translation, tag.str))
    ELSE IF ~tag.translateable THEN tag
    ELSE
      LET translated_tag_chunk ==
              IF depth(tag) = 2 THEN translate_tag_chunk(translation, tag)
              ELSE NoneTag
      IN  IF ~IsNone(translated_tag_chunk) THEN translated_tag_chunk
          ELSE [tag EXCEPT !.children =
                  [i \in DOMAIN tag.children |->
                     translate_tags(translation, tag.children[i])]]

\* The trees translate_tags is called with.
LeafStrings == {<<>>, <<"q">>, <<"q">> \o ARGOS_OPEN_TAG \o <<"q">>}

LeafTags ==
    {Tag(<<>>, TRUE), Tag(<<Str(<<"q">>), Str(<<"q">>)>>, TRUE)}
      \cup { Tag(<<Str(chars)>>, f) : chars \in LeafStrings, f \in BOOLEAN }

LeafNodes == { Str(chars) : chars \in LeafStrings } \cup LeafTags

MidTags ==
    { Tag(children, f) :
        children \in UNION { [1..k -> LeafNodes] : k \in 1..MaxChildren },
        f \in BOOLEAN }

TopTags == { Tag(<<middle>>, TRUE) : middle \in MidTags }

TagTrees == LeafTags \cup MidTags \cup TopTags

NoTagsCall == [pc |-> "idle", translation |-> "none", tag |-> Tag(<<>>, TRUE),
               result |-> Tag(<<>>, TRUE)]

\* translate_tags(translation, tag) is called and returns
TranslateTagsCall ==
    /\ tags_call.pc = "idle"
    /\ \E translation \in TagTranslations, tag \in TagTrees :
         tags_call' = [pc |-> "done", translation |-> translation, tag |-> tag,
                       result |-> translate_tags(translation, tag)]
    /\ UNCHANGED <<graphVars, translateVars, chunk_call, fewshotVars, objectVars,
                   netVars,
                   threadVars,
                   pivotVars,
                   guiVars,
                   raiseVars,
                   splitVars>>

\* the caller drops the tree
TranslateTagsDrop ==
    /\ tags_call.pc = "done"
    /\ tags_call' = NoTagsCall
    /\ UNCHANGED <<graphVars, translateVars, chunk_call, fewshotVars, objectVars,
                   netVars,
                   threadVars,
                   pivotVars,
                   guiVars,
                   raiseVars,
                   splitVars>>

TagsNext == TranslateTagsCall \/ TranslateTagsDrop

(***************************************************************************)
(* Texts and hypotheses.  A text is a sequence of characters; a Hypothesis *)
(* is a value and a score (a float in the code, an integer here).          *)
(***************************************************************************)
NL == "\n"

Alphabet == {"a", NL}

Texts == UNION { [1..k -> Alphabet] : k \in 0..MaxLen }

HypothesisCounts == {1, 2, DefaultNumHypotheses}

Hypothesis(value, score) == [value |-> value, score |-> score]

\* input_text.split("\n")
RECURSIVE SplitFrom(_, _, _)
SplitFrom(text, i, current) ==
    IF i > Len(text) THEN <<current>>
    ELSE IF text[i] = NL THEN <<current>> \o SplitFrom(text, i + 1, <<>>)
    ELSE SplitFrom(text, i + 1, Append(current, text[i]))

split_into_paragraphs(input_text) == SplitFrom(input_text, 1, <<>>)

\* "\n".join(paragraphs)
RECURSIVE combine_paragraphs(_)
combine_paragraphs(paragraphs) ==
    IF paragraphs = <<>> THEN <<>>
    ELSE IF Len(paragraphs) = 1 THEN paragraphs[1]
    ELSE paragraphs[1] \o <<NL>> \o combine_paragraphs(Tail(paragraphs))

\* value.lstrip("\n"): every leading newline is removed
RECURSIVE lstrip(_)
lstrip(value) ==
    IF value # <<>> /\ Head(value) = NL THEN lstrip(Tail(value)) ELSE value

\* "Construct new hypotheses using all paragraphs": rank i of the result
\* joins rank i of every paragraph (the same loop closes
\* PackageTranslation.hypotheses and CachedTranslation.hypotheses)
RECURSIVE JoinRank(_, _, _, _)
JoinRank(translated_paragraphs, i, j, acc) ==
    IF j > Len(translated_paragraphs) THEN acc
    ELSE JoinRank(translated_paragraphs, i, j + 1,
            Hypothesis(combine_paragraphs(<<acc.value, translated_paragraphs[j][i].value>>),
                       acc.score + translated_paragraphs[j][i].score))

ConstructHypotheses(translated_paragraphs, num_hypotheses) ==
    [i \in 1..num_hypotheses |->
        LET joined == JoinRank(translated_paragraphs, i, 1, Hypothesis(<<>>, 0))
        IN  Hypothesis(lstrip(joined.value), joined.score)]

(***************************************************************************)
(* The engines outside the repository, as deterministic stand-ins that     *)
(* keep the contract of hypotheses(): exactly num_hypotheses entries.  The *)
(* entries depend on the text, the rank, the package and num_hypotheses.   *)
(***************************************************************************)
\* en->es turns a into b, es->... turns b into c
MapChar(key, c) ==
    IF key[1] = "en" /\ c = "a" THEN "b"
    ELSE IF key[1] = "es" /\ c = "b" THEN "c"
    ELSE c

MapChars(key, text) == [k \in 1..Len(text) |-> MapChar(key, text[k])]

Marks(k) == [j \in 1..k |-> "x"]

EngineBias(key) == IF key[1] = "es" THEN 2 ELSE 0

\* sentencepiece + ctranslate2.Translator.translate_batch for one paragraph
apply_packaged_translation(key, input_text, num_hypotheses) ==
    [i \in 1..num_hypotheses |->
        Hypothesis(MapChars(key, input_text) \o Marks(i - 1),
                   EngineBias(key) * Len(input_text)
                     - (1 + EngineBias(key)) * (i - 1) - num_hypotheses)]

\* LibreTranslateAPI.translate
ApiTranslate(from_code, to_code, input_text) ==
    MapChars(<<from_code, to_code>>, input_text)

(***************************************************************************)
(* The translation classes.                                                *)
(***************************************************************************)
PackageTranslation(from_lang, to_lang, key) ==
    [kind |-> "package", from_lang |-> from_lang, to_lang |-> to_lang,
     key |-> key, pkg |-> 0, parts |-> <<>>]

RemoteTranslation(from_lang, to_lang) ==
    [kind |-> "remote", from_lang |-> from_lang, to_lang |-> to_lang,
     key |-> <<>>, pkg |-> 0, parts |-> <<>>]

\* the PackageTranslation a CachedTranslation of the graph wraps
Underlying(cached) == [cached EXCEPT !.kind = "package"]

PackageHypotheses(t, input_text, num_hypotheses) ==
    LET paragraphs == split_into_paragraphs(input_text)
        translated_paragraphs ==
            [j \in 1..Len(paragraphs) |->
                apply_packaged_translation(t.key, paragraphs[j], num_hypotheses)]
    IN  ConstructHypotheses(translated_paragraphs, num_hypotheses)

IdentityHypotheses(input_text, num_hypotheses) ==
    [i \in 1..num_hypotheses |-> Hypothesis(input_text, 0)]

RemoteHypotheses(t, input_text, num_hypotheses) ==
    LET result == ApiTranslate(t.from_lang.code, t.to_lang.code, input_text)
    IN  [i \in 1..num_hypotheses |-> Hypothesis(result, 0)]

\* to_return.sort(): worst first
RECURSIVE InsertByScoreAscending(_, _)
InsertByScoreAscending(sorted, h) ==
    IF sorted = <<>> THEN <<h>>
    ELSE IF h.score < Head(sorted).score THEN <<h>> \o sorted
    ELSE <<Head(sorted)>> \o InsertByScoreAscending(Tail(sorted), h)

RECURSIVE SortAscendingFrom(_, _, _)
SortAscendingFrom(list, k, sorted) ==
    IF k > Len(list) THEN sorted
    ELSE SortAscendingFrom(list, k + 1, InsertByScoreAscending(sorted, list[k]))

SortAscending(list) == SortAscendingFrom(list, 1, <<>>)

\* to_return.sort(reverse=True): Hypothesis.__lt__ compares the scores, and
\* the sort is stable (entries of equal score keep their order)
RECURSIVE InsertByScore(_, _)
InsertByScore(sorted, h) ==
    IF sorted = <<>> THEN <<h>>
    ELSE IF Head(sorted).score < h.score THEN <<h>> \o sorted
    ELSE <<Head(sorted)>> \o InsertByScore(Tail(sorted), h)

RECURSIVE SortReverseFrom(_, _, _)
SortReverseFrom(list, k, sorted) ==
    IF k > Len(list) THEN sorted
    ELSE SortReverseFrom(list, k + 1, InsertByScore(sorted, list[k]))

SortReverse(list) == SortReverseFrom(list, 1, <<>>)

\* to_return, not cut
SliceAll(list, num_hypotheses) == list

\* to_return[0:num_hypotheses]
Slice(list, num_hypotheses) ==
    SubSeq(list, 1, IF num_hypotheses < Len(list) THEN num_hypotheses ELSE Len(list))

RECURSIVE Hypotheses(_, _, _)
RECURSIVE CombineHypotheses(_, _, _, _)
RECURSIVE CompositeHypotheses(_, _, _, _)

\* lines 243-250: the entries appended for t1_hypotheses[i..]
CombineHypotheses(t1_hypotheses, i, t2, num_hypotheses) ==
    IF i > Len(t1_hypotheses) THEN <<>>
    ELSE
      LET t1_hypothesis == t1_hypotheses[i]
          t2_hypotheses == Hypotheses(t2, t1_hypothesis.value, num_hypotheses)
      IN  [j \in 1..Len(t2_hypotheses) |->
              Hypothesis(t2_hypotheses[j].value,
                         t1_hypothesis.score + t2_hypotheses[j].score)]
          \o CombineHypotheses(t1_hypotheses, i + 1, t2, num_hypotheses)

\* A composite that hands input_text, not t1's output, to t2.
CompositeHypothesesSameInput(t1, t2, input_text, num_hypotheses) ==
    LET t1_hypotheses == Hypotheses(t1, input_text, num_hypotheses)
        same == [i \in 1..Len(t1_hypotheses) |->
                    Hypothesis(input_text, t1_hypotheses[i].score)]
        to_return == CombineHypotheses(same, 1, t2, num_hypotheses)
    IN  Slice(SortReverse(to_return), num_hypotheses)

\* CompositeTranslation.hypotheses
CompositeHypotheses(t1, t2, input_text, num_hypotheses) ==
    LET t1_hypotheses == Hypotheses(t1, input_text, num_hypotheses)
        to_return == CombineHypotheses(t1_hypotheses, 1, t2, num_hypotheses)
    IN  Slice(SortReverse(to_return), num_hypotheses)

\* hypotheses() of a translation that keeps no state between calls
Hypotheses(t, input_text, num_hypotheses) ==
    CASE t.kind = "identity" -> IdentityHypotheses(input_text, num_hypotheses)
      [] t.kind = "remote" -> RemoteHypotheses(t, input_text, num_hypotheses)
      [] t.kind = "package" -> PackageHypotheses(t, input_text, num_hypotheses)
      [] t.kind = "composite" ->
            CompositeHypotheses(t.parts[1], t.parts[2], input_text, num_hypotheses)

\* ITranslation.translate, given what hypotheses(input_text, 1) returned
FirstValue(hypotheses) == hypotheses[1].value

Translate(t, input_text) == FirstValue(Hypotheses(t, input_text, 1))

(***************************************************************************)
(* CachedTranslation.hypotheses.  A cache is a function from paragraphs to *)
(* hypothesis lists.                                                       *)
(***************************************************************************)
EmptyCache == [p \in {} |-> <<>>]

\* len(self.cache.get(paragraph)), 0 for None
CachedLength(old_cache, paragraph) ==
    IF paragraph \in DOMAIN old_cache THEN Len(old_cache[paragraph]) ELSE 0

\* A cached entry is reused unless it is shorter than asked.
CacheMissIfShorter(old_cache, paragraph, num_hypotheses) ==
    \/ paragraph \notin DOMAIN old_cache
    \/ Len(old_cache[paragraph]) < num_hypotheses

\* The cache is never used.
CacheMissAlways(old_cache, paragraph, num_hypotheses) == TRUE

\* The length is compared with the default num_hypotheses, not the argument.
CacheMissAgainstDefault(old_cache, paragraph, num_hypotheses) ==
    \/ paragraph \notin DOMAIN old_cache
    \/ Len(old_cache[paragraph]) # DefaultNumHypotheses

\* lines 292-295: translated_paragraph is None or of another length
CacheMiss(old_cache, paragraph, num_hypotheses) ==
    \/ paragraph \notin DOMAIN old_cache
    \/ Len(old_cache[paragraph]) # num_hypotheses

\* The new cache starts from the entries of the old one.
KeepOldCache(old_cache) == old_cache

\* line 285: new_cache = dict()
NewCache(old_cache) == EmptyCache

\* lines 288-300: the loop over paragraphs[j..]
RECURSIVE CachedLoop(_, _, _, _, _, _)
CachedLoop(old_cache, underlying, paragraphs, j, num_hypotheses, acc) ==
    IF j > Len(paragraphs) THEN acc
    ELSE
      LET paragraph == paragraphs[j]
          miss == CacheMiss(old_cache, paragraph, num_hypotheses)
          translated_paragraph ==
              IF miss THEN Hypotheses(underlying, paragraph, num_hypotheses)
              ELSE old_cache[paragraph]
      IN  CachedLoop(old_cache, underlying, paragraphs, j + 1, num_hypotheses,
            [new_cache |-> [p \in DOMAIN acc.new_cache \cup {paragraph} |->
                               IF p = paragraph THEN translated_paragraph
                               ELSE acc.new_cache[p]],
             translated_paragraphs |-> Append(acc.translated_paragraphs,
                                              translated_paragraph),
             found |-> Append(acc.found, CachedLength(old_cache, paragraph)),
             calls |-> IF miss
                       THEN Append(acc.calls, [paragraph |-> paragraph,
                                               num_hypotheses |-> num_hypotheses])
                       ELSE acc.calls])

\* The hypotheses returned, the cache left behind, the length of the entry
\* self.cache.get found for each paragraph (0: None) and the calls made to
\* underlying.hypotheses.
CachedHypotheses(old_cache, underlying, input_text, num_hypotheses) ==
    LET looped == CachedLoop(old_cache, underlying,
                             split_into_paragraphs(input_text), 1, num_hypotheses,
                             [new_cache |-> NewCache(old_cache),
                              translated_paragraphs |-> <<>>, found |-> <<>>,
                              calls |-> <<>>])
    IN  [hypotheses |-> ConstructHypotheses(looped.translated_paragraphs,
                                            num_hypotheses),
         cache |-> looped.new_cache,
         found |-> looped.found,
         calls |-> looped.calls]

(***************************************************************************)
(* Calls on translations: one CachedTranslation instance, whose cache      *)
(* lives across calls, and translations that keep no state.                *)
(***************************************************************************)
En == Lang(1, "en")
Es == Lang(1, "es")
Fr == Lang(1, "fr")

EnEs == PackageTranslation(En, Es, <<"en", "es">>)
EsFr == PackageTranslation(Es, Fr, <<"es", "fr">>)

\* the CachedTranslation under call, as get_installed_languages builds it
TheCached == [EnEs EXCEPT !.kind = "cached"]

BaseTranslations == {IdentityTranslation(Es), RemoteTranslation(En, Es), EnEs, EsFr}

StatelessTranslations ==
    BaseTranslations
      \cup { CompositeTranslation(t1, t2) : t1 \in BaseTranslations, t2 \in BaseTranslations }
      \cup { CompositeTranslation(CompositeTranslation(EnEs, EsFr), EsFr) }

Idle == [op |-> "idle", target |-> None, text |-> <<>>, n |-> 0,
         result |-> <<>>, value |-> <<>>, found |-> <<>>, calls |-> <<>>,
                  dropped |-> FALSE]

\* No package is installed and get_installed_languages is not called.
\* ---------------------------------------------------------------------
\* fewshot.parse_inference

MaxAffix == 2

DelimiterLength == 10

Repeat(char, n) == [i \in 1..n |-> char]

\* Model outputs: text, then nothing, a delimiter, both delimiters or a
\* line one character short of a delimiter, then text.
InferenceOutputs ==
    { pre \o mid \o post :
        pre \in StringsUpTo({"a", "-"}, MaxAffix),
        mid \in { <<>>, Repeat("=", DelimiterLength), Repeat("-", DelimiterLength),
                  Repeat("=", DelimiterLength - 1),
                  Repeat("-", DelimiterLength) \o <<"a">> \o Repeat("=", DelimiterLength) },
        post \in StringsUpTo({"a", "="}, MaxAffix) }

\* output[end_index]: the one character at end_index
parse_inference(output) ==
    LET end_index == Find(output, Repeat("=", DelimiterLength))
        dash_index == Find(output, Repeat("-", DelimiterLength))
    IN  IF end_index # -1 THEN <<output[end_index + 1]>>
        ELSE IF dash_index # -1 THEN <<output[dash_index + 1]>>
        ELSE output

NoInference == [pc |-> "idle", output |-> <<>>, result |-> <<>>]

ParseInferenceCall ==
    /\ inference_call.pc = "idle"
    /\ \E output \in InferenceOutputs :
         inference_call' = [pc |-> "done", output |-> output,
                            result |-> parse_inference(output)]
    /\ UNCHANGED <<graphVars, translateVars, chunk_call, tags_call, objectVars,
                   netVars,
                   threadVars,
                   pivotVars,
                   guiVars,
                   raiseVars,
                   splitVars>>

ParseInferenceDrop ==
    /\ inference_call.pc = "done"
    /\ inference_call' = NoInference
    /\ UNCHANGED <<graphVars, translateVars, chunk_call, tags_call, objectVars,
                   netVars,
                   threadVars,
                   pivotVars,
                   guiVars,
                   raiseVars,
                   splitVars>>

FewShotNext == ParseInferenceCall \/ ParseInferenceDrop

\* ---------------------------------------------------------------------
\* Hypothesis objects and their comparison

MaxObjects == 3

HypothesisValues == {"7", "9"}

\* scores in tenths: -0.9 and -1.5
HypothesisScores == {-9, -15}

\* Hypothesis(value, score): a new object; its identity is its place in
\* hypothesis_objects
NewHypothesis ==
    /\ Len(hypothesis_objects) < MaxObjects
    /\ \E value \in HypothesisValues, score \in HypothesisScores :
         hypothesis_objects' = Append(hypothesis_objects, Hypothesis(value, score))
    /\ UNCHANGED eq_call
    /\ UNCHANGED <<graphVars, translateVars, chunk_call, tags_call, fewshotVars,
                   netVars,
                   threadVars,
                   pivotVars,
                   guiVars,
                   raiseVars,
                   splitVars>>

\* a == b: the class defines no __eq__, object.__eq__ compares identities
ObjectEq(left, right) == left = right

\* a < b: Hypothesis.__lt__
ObjectLt(left, right) ==
    hypothesis_objects[left].score < hypothesis_objects[right].score

NoComparison == [pc |-> "idle", left |-> 0, right |-> 0, eq |-> FALSE,
                 ne |-> FALSE, lt |-> FALSE]

CompareHypotheses ==
    /\ \E left \in DOMAIN hypothesis_objects, right \in DOMAIN hypothesis_objects :
         eq_call' = [pc |-> "done", left |-> left, right |-> right,
                     eq |-> ObjectEq(left, right),
                     ne |-> ~ObjectEq(left, right),
                     lt |-> ObjectLt(left, right)]
    /\ UNCHANGED hypothesis_objects
    /\ UNCHANGED <<graphVars, translateVars, chunk_call, tags_call, fewshotVars,
                   netVars,
                   threadVars,
                   pivotVars,
                   guiVars,
                   raiseVars,
                   splitVars>>

HypothesisNext == NewHypothesis \/ CompareHypotheses

\* ---------------------------------------------------------------------
\* networking.get

MaxRetry == 3

Urls ==
    { <<"h", "t", "t", "p", ":", "x">>,
      <<"h", "t", "t", "p", "s", ":", "x">>,
      <<"h", "t", "t", "p", ":", ":">>,
      <<"H", "T", "T", "P", ":", "x">>,
      <<"f", "t", "p", ":", "x">>,
      <<"h", "t", "t", "p">>,
      <<":", "x">>,
      <<>> }

\* what urlopen(req).read() may deliver
DownloadedData == {"data1", "data2"}

NoData == "None"

get_protocol(url) ==
    LET protocol_end_index == Find(url, <<":">>)
    IN  IF protocol_end_index > 0 THEN SubSeq(url, 1, protocol_end_index)
        ELSE <<>>

supported_protocols == { <<"h", "t", "t", "p">>, <<"h", "t", "t", "p", "s">> }

\* one pass more than the loop makes
MayAttemptOnceMore(download_attempts_count, retry_count) ==
    download_attempts_count <= retry_count + 1

\* while download_attempts_count <= retry_count
MayAttempt(download_attempts_count, retry_count) ==
    download_attempts_count <= retry_count

NoGet == [pc |-> "idle", url |-> <<>>, retry_count |-> 0,
          download_attempts_count |-> 0, outcomes |-> <<>>, result |-> NoData]

\* get(url, retry_count) up to the while loop
GetCall ==
    /\ get_call.pc = "idle"
    /\ \E url \in Urls, retry_count \in 0..MaxRetry :
         get_call' = [pc |-> IF get_protocol(url) \in supported_protocols
                             THEN "loop" ELSE "done",
                      url |-> url, retry_count |-> retry_count,
                      download_attempts_count |-> 0, outcomes |-> <<>>,
                      result |-> NoData]
    /\ UNCHANGED <<graphVars, translateVars, chunk_call, tags_call, fewshotVars,
                   objectVars,
                   threadVars,
                   pivotVars,
                   guiVars,
                   raiseVars,
                   splitVars>>

\* one pass of the loop whose urlopen and read succeed: return data
GetAttemptSucceeds ==
    /\ get_call.pc = "loop"
    /\ MayAttempt(get_call.download_attempts_count, get_call.retry_count)
    /\ \E data \in DownloadedData :
         get_call' = [get_call EXCEPT !.pc = "done",
                                      !.outcomes = Append(@, data),
                                      !.result = data]
    /\ UNCHANGED <<graphVars, translateVars, chunk_call, tags_call, fewshotVars,
                   objectVars,
                   threadVars,
                   pivotVars,
                   guiVars,
                   raiseVars,
                   splitVars>>

\* one pass of the loop whose urlopen or read raises
GetAttemptFails ==
    /\ get_call.pc = "loop"
    /\ MayAttempt(get_call.download_attempts_count, get_call.retry_count)
    /\ get_call' = [get_call EXCEPT !.download_attempts_count = @ + 1,
                                    !.outcomes = Append(@, "error")]
    /\ UNCHANGED <<graphVars, translateVars, chunk_call, tags_call, fewshotVars,
                   objectVars,
                   threadVars,
                   pivotVars,
                   guiVars,
                   raiseVars,
                   splitVars>>

\* the loop condition is false: return None
GetGiveUp ==
    /\ get_call.pc = "loop"
    /\ ~MayAttempt(get_call.download_attempts_count, get_call.retry_count)
    /\ get_call' = [get_call EXCEPT !.pc = "done", !.result = NoData]
    /\ UNCHANGED <<graphVars, translateVars, chunk_call, tags_call, fewshotVars,
                   objectVars,
                   threadVars,
                   pivotVars,
                   guiVars,
                   raiseVars,
                   splitVars>>

\* the caller takes the result; get can be called again
GetDrop ==
    /\ get_call.pc = "done"
    /\ get_call' = NoGet
    /\ UNCHANGED <<graphVars, translateVars, chunk_call, tags_call, fewshotVars,
                   objectVars,
                   threadVars,
                   pivotVars,
                   guiVars,
                   raiseVars,
                   splitVars>>

GetNext ==
    GetCall \/ GetAttemptSucceeds \/ GetAttemptFails \/ GetGiveUp \/ GetDrop

\* ---------------------------------------------------------------------
\* Concurrent callers of one CachedTranslation over a PackageTranslation

Threads == {1, 2}

MaxThreadText == 2

ThreadTexts == StringsUpTo(Alphabet, MaxThreadText)

ThreadCounts == {1, 2}

NoTranslator == 0

NoFrame == [pc |-> "idle", paragraphs |-> <<>>, n |-> 0, j |-> 0,
            new_cache |-> EmptyCache, read |-> FALSE]

NoThreads == [t \in Threads |-> NoFrame]

\* new_cache = dict(); paragraphs = split_into_paragraphs(input_text)
ThreadCall(t) ==
    /\ threads[t].pc = "idle"
    /\ \E input_text \in ThreadTexts, num_hypotheses \in ThreadCounts :
         threads' = [threads EXCEPT ![t] =
                       [pc |-> "loop",
                        paragraphs |-> split_into_paragraphs(input_text),
                        n |-> num_hypotheses, j |-> 1,
                        new_cache |-> EmptyCache, read |-> FALSE]]
    /\ UNCHANGED <<cache, translator, engines_built>>
    /\ UNCHANGED <<graphVars, last, chunk_call, tags_call, fewshotVars,
                   objectVars, netVars,
                   pivotVars,
                   guiVars,
                   raiseVars,
                   splitVars>>

\* translated_paragraph = self.cache.get(paragraph): a hit goes into
\* new_cache, a miss calls self.underlying.hypotheses
ThreadLookup(t) ==
    /\ threads[t].pc = "loop"
    /\ threads[t].j <= Len(threads[t].paragraphs)
    /\ LET paragraph == threads[t].paragraphs[threads[t].j]
       IN  IF CacheMiss(cache, paragraph, threads[t].n)
           THEN threads' = [threads EXCEPT ![t].pc = "underlying",
                                           ![t].read = TRUE]
           ELSE threads' = [threads EXCEPT
                              ![t].new_cache =
                                  [p \in DOMAIN @ \cup {paragraph} |->
                                     IF p = paragraph THEN cache[paragraph] ELSE @[p]],
                              ![t].j = @ + 1,
                              ![t].read = TRUE]
    /\ UNCHANGED <<cache, translator, engines_built>>
    /\ UNCHANGED <<graphVars, last, chunk_call, tags_call, fewshotVars,
                   objectVars, netVars,
                   pivotVars,
                   guiVars,
                   raiseVars,
                   splitVars>>

\* PackageTranslation.hypotheses: if self.translator is None
ThreadCheckTranslator(t) ==
    /\ threads[t].pc = "underlying"
    /\ threads' = [threads EXCEPT ![t].pc = IF translator = NoTranslator
                                            THEN "construct" ELSE "translate"]
    /\ UNCHANGED <<cache, translator, engines_built>>
    /\ UNCHANGED <<graphVars, last, chunk_call, tags_call, fewshotVars,
                   objectVars, netVars,
                   pivotVars,
                   guiVars,
                   raiseVars,
                   splitVars>>

\* self.translator = ctranslate2.Translator(model_path, ...)
ThreadConstruct(t) ==
    /\ threads[t].pc = "construct"
    /\ engines_built' = engines_built + 1
    /\ translator' = engines_built + 1
    /\ threads' = [threads EXCEPT ![t].pc = "translate"]
    /\ UNCHANGED cache
    /\ UNCHANGED <<graphVars, last, chunk_call, tags_call, fewshotVars,
                   objectVars, netVars,
                   pivotVars,
                   guiVars,
                   raiseVars,
                   splitVars>>

\* the rest of PackageTranslation.hypotheses, then
\* new_cache[paragraph] = translated_paragraph
ThreadTranslate(t) ==
    /\ threads[t].pc = "translate"
    /\ LET paragraph == threads[t].paragraphs[threads[t].j]
           translated_paragraph ==
               PackageHypotheses(Underlying(TheCached), paragraph, threads[t].n)
       IN  threads' = [threads EXCEPT
                         ![t].pc = "loop",
                         ![t].new_cache =
                             [p \in DOMAIN @ \cup {paragraph} |->
                                IF p = paragraph THEN translated_paragraph ELSE @[p]],
                         ![t].j = @ + 1]
    /\ UNCHANGED <<cache, translator, engines_built>>
    /\ UNCHANGED <<graphVars, last, chunk_call, tags_call, fewshotVars,
                   objectVars, netVars,
                   pivotVars,
                   guiVars,
                   raiseVars,
                   splitVars>>

\* self.cache = new_cache; the hypotheses are built from local values and
\* returned
ThreadInstall(t) ==
    /\ threads[t].pc = "loop"
    /\ threads[t].j > Len(threads[t].paragraphs)
    /\ cache' = threads[t].new_cache
    /\ threads' = [threads EXCEPT ![t] = NoFrame]
    /\ UNCHANGED <<translator, engines_built>>
    /\ UNCHANGED <<graphVars, last, chunk_call, tags_call, fewshotVars,
                   objectVars, netVars,
                   pivotVars,
                   guiVars,
                   raiseVars,
                   splitVars>>

ThreadsNext ==
    \E t \in Threads :
      \/ ThreadCall(t)
      \/ ThreadLookup(t)
      \/ ThreadCheckTranslator(t)
      \/ ThreadConstruct(t)
      \/ ThreadTranslate(t)
      \/ ThreadInstall(t)

\* ---------------------------------------------------------------------
\* The pivot loops of get_installed_languages, one iteration at a time

MaxPivotPackages == 3

\* the translate packages a graph is built from; two of them provide en->es
PivotPackages ==
    { p \in AvailablePackages : p.type = "translate" }
      \cup { TranslatePackage(8, "en", "es") }

RECURSIVE ListsOf(_, _)
ListsOf(pkgs, n) ==
    IF n = 0 THEN { <<>> }
    ELSE ListsOf(pkgs, n - 1)
           \cup { Append(l, p) : l \in ListsOf(pkgs, n - 1),
                                 p \in pkgs }

\* lists of distinct package directories
PackageLists ==
    { l \in ListsOf(PivotPackages, MaxPivotPackages) :
        \A a \in 1..Len(l), b \in 1..Len(l) : a # b => l[a] # l[b] }

\* a composite is appended for any destination no composite leads to yet
NoCompositeTo(tf, code) ==
    LET IsComposite(t) == t.kind = "composite"
    IN  get_translation(SelectSeq(tf, IsComposite), code) = None

\* language.get_translation(translation_2.to_lang) is None
NoEdgeTo(tf, code) == get_translation(tf, code) = None

NoPivot == [pc |-> "idle", pkgs |-> <<>>, order |-> <<>>, heap |-> EmptyHeap,
            l |-> 0, i |-> 0, j |-> 0, keep_adding_translations |-> FALSE]

\* get_installed_languages in a fresh process up to the pivot loops
PivotStart ==
    /\ pivot.pc = "idle"
    /\ \E pkgs \in PackageLists :
         LET loaded == LoadPackages(pkgs, 1, 1, <<>>, EmptyHeap, <<>>)
             withIds == AddIdentities(loaded.order, 1, 1, loaded.heap)
         IN  pivot' = [pc |-> "for language", pkgs |-> pkgs,
                       order |-> loaded.order, heap |-> withIds,
                       l |-> 1, i |-> 0, j |-> 0,
                       keep_adding_translations |-> FALSE]
    /\ UNCHANGED <<graphVars, translateVars, chunk_call, tags_call, fewshotVars,
                   objectVars, netVars, threadVars,
                   guiVars,
                   raiseVars,
                   splitVars>>

\* for language in languages: keep_adding_translations = True
PivotNextLanguage ==
    /\ pivot.pc = "for language"
    /\ pivot' = IF pivot.l > Len(pivot.order)
                THEN [pivot EXCEPT !.pc = "done"]
                ELSE [pivot EXCEPT !.pc = "while",
                                   !.keep_adding_translations = TRUE]
    /\ UNCHANGED <<graphVars, translateVars, chunk_call, tags_call, fewshotVars,
                   objectVars, netVars, threadVars,
                   guiVars,
                   raiseVars,
                   splitVars>>

\* while keep_adding_translations: keep_adding_translations = False
PivotWhile ==
    /\ pivot.pc = "while"
    /\ pivot' = IF pivot.keep_adding_translations
                THEN [pivot EXCEPT !.pc = "for translation",
                                   !.keep_adding_translations = FALSE,
                                   !.i = 1, !.j = 1]
                ELSE [pivot EXCEPT !.pc = "for language", !.l = @ + 1]
    /\ UNCHANGED <<graphVars, translateVars, chunk_call, tags_call, fewshotVars,
                   objectVars, netVars, threadVars,
                   guiVars,
                   raiseVars,
                   splitVars>>

\* one step of the two for loops over the lists as they are now
PivotStep ==
    /\ pivot.pc = "for translation"
    /\ LET language == Lang(1, pivot.order[pivot.l])
           tf == pivot.heap[language]
       IN  IF pivot.i > Len(tf) THEN pivot' = [pivot EXCEPT !.pc = "while"]
           ELSE
             LET translation == tf[pivot.i]
                 inner == pivot.heap[translation.to_lang]
             IN  IF pivot.j > Len(inner)
                 THEN pivot' = [pivot EXCEPT !.i = @ + 1, !.j = 1]
                 ELSE
                   LET translation_2 == inner[pivot.j]
                   IN  IF NoEdgeTo(tf, translation_2.to_lang.code)
                       THEN pivot' =
                              [pivot EXCEPT
                                 !.keep_adding_translations = TRUE,
                                 !.heap[language] =
                                     Append(@, CompositeTranslation(translation,
                                                                    translation_2)),
                                 !.j = @ + 1]
                       ELSE pivot' = [pivot EXCEPT !.j = @ + 1]
    /\ UNCHANGED <<graphVars, translateVars, chunk_call, tags_call, fewshotVars,
                   objectVars, netVars, threadVars,
                   guiVars,
                   raiseVars,
                   splitVars>>

\* the caller takes the languages; the next build starts in a new process
PivotDrop ==
    /\ pivot.pc = "done"
    /\ pivot' = NoPivot
    /\ UNCHANGED <<graphVars, translateVars, chunk_call, tags_call, fewshotVars,
                   objectVars, netVars, threadVars,
                   guiVars,
                   raiseVars,
                   splitVars>>

PivotLoopNext ==
    PivotStart \/ PivotNextLanguage \/ PivotWhile \/ PivotStep \/ PivotDrop

\* ---------------------------------------------------------------------
\* GUIWindow and its TranslationThread workers

MaxRequests == 3

\* left_textEdit contents; "long" stands for a text above
\* SHOW_LOADING_THRESHOLD
GuiInputs == {"a", "b", "long"}

ShowLoadingMessage(input_text) == input_text = "long"

\* translation.translate(input_text)
GuiTranslated(input_text) == <<"translation of", input_text>>

LoadingText == <<"Loading...">>

NoThread == 0

NoWindow == [worker_thread |-> NoThread, queued_translation |-> NoThread,
             right_textEdit |-> <<>>]

\* a translate() that starts its thread whatever worker_thread holds
AlwaysStart(worker_thread) == TRUE

\* if self.worker_thread is None
MayStart(worker_thread) == worker_thread = NoThread

\* a translate() that keeps a thread that is already queued
KeepQueued(queued_translation, new_worker_thread) ==
    IF queued_translation = NoThread THEN new_worker_thread
    ELSE queued_translation

\* self.queued_translation = new_worker_thread
Enqueue(queued_translation, new_worker_thread) == new_worker_thread

\* GUIWindow.translate with a translation for the selected pair
GuiTranslate ==
    /\ Len(gui_threads) < MaxRequests
    /\ \E input_text \in GuiInputs :
         LET new_worker_thread == Len(gui_threads) + 1
             start == MayStart(gui_window.worker_thread)
         IN  /\ gui_threads' =
                   Append(gui_threads,
                          [input_text |-> input_text,
                           show_loading_message |-> ShowLoadingMessage(input_text),
                           pc |-> IF start THEN "run" ELSE "created"])
             /\ gui_window' =
                   IF start
                   THEN [gui_window EXCEPT !.worker_thread = new_worker_thread]
                   ELSE [gui_window EXCEPT !.queued_translation =
                           Enqueue(@, new_worker_thread)]
    /\ UNCHANGED gui_events
    /\ UNCHANGED <<graphVars, translateVars, chunk_call, tags_call, fewshotVars,
                   objectVars, netVars, threadVars, pivotVars,
                   raiseVars,
                   splitVars>>

\* TranslationThread.run up to the call of translation_function
ThreadRunLoading(t) ==
    /\ gui_threads[t].pc = "run"
    /\ gui_threads' = [gui_threads EXCEPT ![t].pc = "translate"]
    /\ gui_events' =
         IF gui_threads[t].show_loading_message
         THEN Append(gui_events, [signal |-> "send_text_update",
                                  text |-> LoadingText, thread |-> t])
         ELSE gui_events
    /\ UNCHANGED gui_window
    /\ UNCHANGED <<graphVars, translateVars, chunk_call, tags_call, fewshotVars,
                   objectVars, netVars, threadVars, pivotVars,
                   raiseVars,
                   splitVars>>

\* the rest of run: the translation is emitted, run returns and the
\* thread emits finished
ThreadRunTranslate(t) ==
    /\ gui_threads[t].pc = "translate"
    /\ gui_threads' = [gui_threads EXCEPT ![t].pc = "finished"]
    /\ gui_events' =
         gui_events
           \o << [signal |-> "send_text_update",
                  text |-> GuiTranslated(gui_threads[t].input_text), thread |-> t],
                 [signal |-> "finished", text |-> <<>>, thread |-> t] >>
    /\ UNCHANGED gui_window
    /\ UNCHANGED <<graphVars, translateVars, chunk_call, tags_call, fewshotVars,
                   objectVars, netVars, threadVars, pivotVars,
                   raiseVars,
                   splitVars>>

\* the GUI thread delivers the oldest queued signal to its slot:
\* update_right_textEdit or handle_worker_thread_finished
GuiDeliver ==
    /\ gui_events # <<>>
    /\ gui_events' = Tail(gui_events)
    /\ IF Head(gui_events).signal = "send_text_update"
       THEN /\ gui_window' = [gui_window EXCEPT
                                !.right_textEdit = Head(gui_events).text]
            /\ UNCHANGED gui_threads
       ELSE IF gui_window.queued_translation # NoThread
       THEN /\ gui_window' = [gui_window EXCEPT
                                !.worker_thread = gui_window.queued_translation,
                                !.queued_translation = NoThread]
            /\ gui_threads' = [gui_threads EXCEPT
                                 ![gui_window.queued_translation].pc = "run"]
       ELSE /\ gui_window' = [gui_window EXCEPT !.worker_thread = NoThread]
            /\ UNCHANGED gui_threads
    /\ UNCHANGED <<graphVars, translateVars, chunk_call, tags_call, fewshotVars,
                   objectVars, netVars, threadVars, pivotVars,
                   raiseVars,
                   splitVars>>

ThreadRun == \E t \in DOMAIN gui_threads : ThreadRunLoading(t) \/ ThreadRunTranslate(t)

GuiNext ==
    \/ GuiTranslate
    \/ \E t \in DOMAIN gui_threads : ThreadRunLoading(t)
    \/ \E t \in DOMAIN gui_threads : ThreadRunTranslate(t)
    \/ GuiDeliver

\* ---------------------------------------------------------------------
\* hypotheses calls whose inference engine may raise

EngineError == "RuntimeError"

\* The engine of the package with key fail.key raises on a paragraph of
\* fail.len characters; no engine raises when fail.key is <<>>.
EngineFailures ==
    { [key |-> <<>>, len |-> 0] }
      \cup { [key |-> k, len |-> n] :
               k \in { <<"en", "es">>, <<"es", "fr">> }, n \in 0..2 }

Returned(value, engine_calls) ==
    [raised |-> NoException, value |-> value, engine_calls |-> engine_calls]

Raised(exception, engine_calls) ==
    [raised |-> exception, value |-> <<>>, engine_calls |-> engine_calls]

\* PackageTranslation.hypotheses: apply_packaged_translation raises on the
\* first paragraph the engine fails on
PackageRaises(t, input_text, fail) ==
    /\ t.key = fail.key
    /\ \E j \in 1..Len(split_into_paragraphs(input_text)) :
         Len(split_into_paragraphs(input_text)[j]) = fail.len

RECURSIVE HypothesesOrRaise(_, _, _, _)
RECURSIVE CombineOrRaise(_, _, _, _, _, _)

\* the loop of CompositeTranslation.hypotheses from t1_hypotheses[i] on
CombineOrRaise(t1_hypotheses, i, t2, num_hypotheses, fail, acc) ==
    IF i > Len(t1_hypotheses) THEN acc
    ELSE
      LET t1_hypothesis == t1_hypotheses[i]
          second == HypothesesOrRaise(t2, t1_hypothesis.value, num_hypotheses, fail)
          engine_calls == acc.engine_calls \o second.engine_calls
      IN  IF second.raised # NoException THEN Raised(second.raised, engine_calls)
          ELSE CombineOrRaise(t1_hypotheses, i + 1, t2, num_hypotheses, fail,
                 Returned(acc.value \o
                            [j \in 1..Len(second.value) |->
                               Hypothesis(second.value[j].value,
                                          t1_hypothesis.score + second.value[j].score)],
                          engine_calls))

HypothesesOrRaise(t, input_text, num_hypotheses, fail) ==
    CASE t.kind = "identity" ->
            Returned(IdentityHypotheses(input_text, num_hypotheses), <<>>)
      [] t.kind = "package" ->
            IF PackageRaises(t, input_text, fail)
            THEN Raised(EngineError, <<[key |-> t.key, input_text |-> input_text]>>)
            ELSE Returned(PackageHypotheses(t, input_text, num_hypotheses),
                          <<[key |-> t.key, input_text |-> input_text]>>)
      [] t.kind = "composite" ->
            LET first == HypothesesOrRaise(t.parts[1], input_text, num_hypotheses, fail)
            IN  IF first.raised # NoException THEN first
                ELSE LET combined == CombineOrRaise(first.value, 1, t.parts[2],
                                                    num_hypotheses, fail,
                                                    Returned(<<>>, first.engine_calls))
                     IN  IF combined.raised # NoException THEN combined
                         ELSE Returned(Slice(SortReverse(combined.value),
                                             num_hypotheses),
                                       combined.engine_calls)

\* a CachedTranslation that stores each paragraph in self.cache as soon as
\* it is translated
CachePartlyRebuilt(old_cache, new_cache) ==
    [p \in DOMAIN old_cache \cup DOMAIN new_cache |->
        IF p \in DOMAIN new_cache THEN new_cache[p] ELSE old_cache[p]]

\* self.cache when underlying.hypotheses raises: line 301 was not reached
CacheAfterRaise(old_cache, new_cache) == old_cache

\* the paragraph loop of CachedTranslation.hypotheses from paragraphs[j] on
RECURSIVE CachedLoopOrRaise(_, _, _, _, _, _, _)
CachedLoopOrRaise(old_cache, underlying, paragraphs, j, num_hypotheses, fail, acc) ==
    IF j > Len(paragraphs)
    THEN [raised |-> NoException,
          value |-> ConstructHypotheses(acc.translated_paragraphs, num_hypotheses),
          engine_calls |-> acc.engine_calls,
          cache |-> acc.new_cache]
    ELSE
      LET paragraph == paragraphs[j]
          miss == CacheMiss(old_cache, paragraph, num_hypotheses)
          called == IF miss
                    THEN HypothesesOrRaise(underlying, paragraph, num_hypotheses, fail)
                    ELSE Returned(old_cache[paragraph], <<>>)
          engine_calls == acc.engine_calls \o called.engine_calls
      IN  IF called.raised # NoException
          THEN [raised |-> called.raised, value |-> <<>>,
                engine_calls |-> engine_calls,
                cache |-> CacheAfterRaise(old_cache, acc.new_cache)]
          ELSE CachedLoopOrRaise(old_cache, underlying, paragraphs, j + 1,
                 num_hypotheses, fail,
                 [new_cache |-> [p \in DOMAIN acc.new_cache \cup {paragraph} |->
                                    IF p = paragraph THEN called.value
                                    ELSE acc.new_cache[p]],
                  translated_paragraphs |-> Append(acc.translated_paragraphs,
                                                   called.value),
                  engine_calls |-> engine_calls])

CachedHypothesesOrRaise(old_cache, underlying, input_text, num_hypotheses, fail) ==
    CachedLoopOrRaise(old_cache, underlying, split_into_paragraphs(input_text), 1,
                      num_hypotheses, fail,
                      [new_cache |-> NewCache(old_cache),
                       translated_paragraphs |-> <<>>, engine_calls |-> <<>>])

FailingCounts == {1, 2}

NoFailingCall == [target |-> None, text |-> <<>>, n |-> 0,
                  fail |-> [key |-> <<>>, len |-> 0],
                  raised |-> NoException, value |-> <<>>, engine_calls |-> <<>>]

\* CachedTranslation(EnEs).hypotheses(text, n)
FailingCachedCall ==
    /\ failing_call = NoFailingCall
    /\ \E text \in Texts, n \in FailingCounts, fail \in EngineFailures :
       \E r \in {CachedHypothesesOrRaise(cache, Underlying(TheCached), text, n, fail)} :
         /\ cache' = r.cache
         /\ failing_call' = [target |-> TheCached, text |-> text, n |-> n,
                             fail |-> fail, raised |-> r.raised, value |-> r.value,
                             engine_calls |-> r.engine_calls]
    /\ UNCHANGED <<graphVars, last, chunk_call, tags_call, fewshotVars,
                   objectVars, netVars, threadVars, pivotVars, guiVars,
                   splitVars>>

\* CompositeTranslation(EnEs, EsFr).hypotheses(text, n)
FailingCompositeCall ==
    /\ failing_call = NoFailingCall
    /\ \E text \in Texts, n \in FailingCounts, fail \in EngineFailures :
       \E r \in {HypothesesOrRaise(CompositeTranslation(EnEs, EsFr), text, n, fail)} :
         failing_call' = [target |-> CompositeTranslation(EnEs, EsFr),
                          text |-> text, n |-> n,
                          fail |-> fail, raised |-> r.raised, value |-> r.value,
                          engine_calls |-> r.engine_calls]
    /\ UNCHANGED cache
    /\ UNCHANGED <<graphVars, last, chunk_call, tags_call, fewshotVars,
                   objectVars, netVars, threadVars, pivotVars, guiVars,
                   splitVars>>

\* the caller has the value or has handled the exception
FailingReturn ==
    /\ failing_call # NoFailingCall
    /\ failing_call' = NoFailingCall
    /\ UNCHANGED cache
    /\ UNCHANGED <<graphVars, last, chunk_call, tags_call, fewshotVars,
                   objectVars, netVars, threadVars, pivotVars, guiVars,
                   splitVars>>

FailingNext == FailingCachedCall \/ FailingCompositeCall \/ FailingReturn

\* ---------------------------------------------------------------------
\* The sentence-splitting loop of apply_packaged_translation without stanza

MaxSplitLen == 3

MaxGuessLen == 2

MaxSentences == 3

DEFAULT_SENTENCE_LENGTH == 250

\* one symbol for the text "<sentence-boundary>"
SENTENCE_BOUNDARY_TOKEN == "<sentence-boundary>"

SplitInputs == StringsUpTo({"a", "b"}, MaxSplitLen)

\* what sbd_translation.translate may return: some text, with or without
\* the boundary token after it
SbdGuesses ==
    { g \o end : g \in StringsUpTo({"a", "x"}, MaxGuessLen),
                 end \in { <<>>, <<SENTENCE_BOUNDARY_TOKEN>> } }

\* the for loop of process_seq2seq_sbd from i on
RECURSIVE BestIndexFrom(_, _, _, _, _)
BestIndexFrom(input_text, sbd_translated_guess, i, best_index, best_ratio) ==
    IF i >= Len(input_text) THEN best_index
    ELSE
      LET ratio == Ratio(PySlice(input_text, 0, i), sbd_translated_guess)
      IN  IF i = 0 \/ Greater(ratio, best_ratio)
          THEN BestIndexFrom(input_text, sbd_translated_guess, i + 1, i, ratio)
          ELSE BestIndexFrom(input_text, sbd_translated_guess, i + 1,
                             best_index, best_ratio)

process_seq2seq_sbd(input_text, sbd_translated_guess) ==
    LET sbd_translated_guess_index ==
            Find(sbd_translated_guess, <<SENTENCE_BOUNDARY_TOKEN>>)
    IN  IF sbd_translated_guess_index # -1
        THEN BestIndexFrom(input_text,
                           PySlice(sbd_translated_guess, 0, sbd_translated_guess_index),
                           0, 0, <<0, 1>>)
        ELSE -1

NoSplit == [pc |-> "idle", input_text |-> <<>>, start_index |-> 0,
            sentences |-> <<>>]

\* sentences = []; start_index = 0
SplitCall ==
    /\ split_call.pc = "idle"
    /\ \E input_text \in SplitInputs :
         split_call' = [pc |-> "loop", input_text |-> input_text,
                        start_index |-> 0, sentences |-> <<>>]
    /\ UNCHANGED <<graphVars, translateVars, chunk_call, tags_call, fewshotVars,
                   objectVars, netVars, threadVars, pivotVars, guiVars, raiseVars>>

\* one pass of the while loop, for what the sbd translation returns
SplitIterate ==
    /\ split_call.pc = "loop"
    /\ split_call.start_index < Len(split_call.input_text) - 1
    /\ Len(split_call.sentences) < MaxSentences
    /\ \E sbd_translated_guess \in SbdGuesses :
         LET rest == PySlice(split_call.input_text, split_call.start_index,
                             Len(split_call.input_text))
             detected_sentence_index == process_seq2seq_sbd(rest, sbd_translated_guess)
             sbd_index == IF detected_sentence_index = -1
                          THEN split_call.start_index + DEFAULT_SENTENCE_LENGTH
                          ELSE split_call.start_index + detected_sentence_index
         IN  split_call' =
               [split_call EXCEPT
                  !.sentences = Append(@, PySlice(split_call.input_text,
                                                  split_call.start_index, sbd_index)),
                  !.start_index = sbd_index]
    /\ UNCHANGED <<graphVars, translateVars, chunk_call, tags_call, fewshotVars,
                   objectVars, netVars, threadVars, pivotVars, guiVars, raiseVars>>

\* the loop condition is false: the sentences go on to tokenization
SplitReturn ==
    /\ split_call.pc = "loop"
    /\ ~(split_call.start_index < Len(split_call.input_text) - 1)
    /\ split_call' = [split_call EXCEPT !.pc = "done"]
    /\ UNCHANGED <<graphVars, translateVars, chunk_call, tags_call, fewshotVars,
                   objectVars, netVars, threadVars, pivotVars, guiVars, raiseVars>>

\* apply_packaged_translation returns; it can be called again
SplitDrop ==
    /\ split_call.pc = "done"
    /\ split_call' = NoSplit
    /\ UNCHANGED <<graphVars, translateVars, chunk_call, tags_call, fewshotVars,
                   objectVars, netVars, threadVars, pivotVars, guiVars, raiseVars>>

SplitNext == SplitCall \/ SplitIterate \/ SplitReturn \/ SplitDrop

TranslateInit ==
    /\ packages = NoGraph.packages
    /\ stanza_available = TRUE
    /\ installed_translates = NoGraph.installed_translates
    /\ translations_from = NoGraph.translations_from
    /\ languages = NoGraph.languages
    /\ lastPackages = <<>>
    /\ calls = 0
    /\ ops = 0
    /\ raised = NoException
    /\ lookup = NoLookup
    /\ cache = EmptyCache
    /\ last = Idle
    /\ chunk_call = NoChunk
    /\ tags_call = NoTagsCall
    /\ inference_call = NoInference
    /\ hypothesis_objects = <<>>
    /\ eq_call = NoComparison
    /\ split_call = NoSplit
    /\ failing_call = NoFailingCall
    /\ gui_window = NoWindow
    /\ gui_threads = <<>>
    /\ gui_events = <<>>
    /\ pivot = NoPivot
    /\ threads = NoThreads
    /\ translator = NoTranslator
    /\ engines_built = 0
    /\ get_call = NoGet

\* CachedTranslation.hypotheses(text, n)
CachedCallHypotheses ==
    /\ last.target \in {None, TheCached}
    /\ \E text \in Texts, n \in HypothesisCounts :
      \E r \in {CachedHypotheses(cache, Underlying(TheCached), text, n)} :
          /\ cache' = r.cache
          /\ last' = [op |-> "hypotheses", target |-> TheCached, text |-> text,
                      n |-> n, result |-> r.hypotheses, value |-> <<>>,
                      found |-> r.found, calls |-> r.calls,
                      dropped |-> DOMAIN cache \ DOMAIN r.cache # {}]
          /\ UNCHANGED <<graphVars, libraryVars>>

\* CachedTranslation.translate(text): ITranslation.translate
CachedCallTranslate ==
    /\ last.target \in {None, TheCached}
    /\ \E text \in Texts :
      \E r \in {CachedHypotheses(cache, Underlying(TheCached), text, 1)} :
          /\ cache' = r.cache
          /\ last' = [op |-> "translate", target |-> TheCached, text |-> text,
                      n |-> 1, result |-> r.hypotheses,
                      value |-> FirstValue(r.hypotheses),
                      found |-> r.found, calls |-> r.calls,
                      dropped |-> DOMAIN cache \ DOMAIN r.cache # {}]
          /\ UNCHANGED <<graphVars, libraryVars>>

\* t.hypotheses(text, n) on a translation that keeps no state
CallHypotheses ==
    /\ last = Idle
    /\ \E t \in StatelessTranslations, text \in Texts, n \in HypothesisCounts :
         last' = [op |-> "hypotheses", target |-> t, text |-> text, n |-> n,
                  result |-> Hypotheses(t, text, n), value |-> <<>>,
                  found |-> <<>>, calls |-> <<>>,
                  dropped |-> FALSE]
    /\ UNCHANGED cache
    /\ UNCHANGED <<graphVars, libraryVars>>

\* t.translate(text) on a translation that keeps no state
CallTranslate ==
    /\ last = Idle
    /\ \E t \in StatelessTranslations, text \in Texts :
         last' = [op |-> "translate", target |-> t, text |-> text, n |-> 1,
                  result |-> Hypotheses(t, text, 1),
                  value |-> Translate(t, text), found |-> <<>>, calls |-> <<>>,
                  dropped |-> FALSE]
    /\ UNCHANGED cache
    /\ UNCHANGED <<graphVars, libraryVars>>

\* The results are dropped and a new CachedTranslation is constructed
\* (CachedTranslation.__init__: self.cache = dict()).
NewCachedTranslation ==
    /\ last # Idle
    /\ cache' = EmptyCache
    /\ last' = Idle
    /\ UNCHANGED <<graphVars, libraryVars>>

TranslateNext ==
    \/ CachedCallHypotheses
    \/ CachedCallTranslate
    \/ CallHypotheses
    \/ CallTranslate
    \/ NewCachedTranslation

SpecTranslate == TranslateInit /\ [][TranslateNext]_vars

\* No call is made on a translation.
GraphInit ==
    /\ packages = NoGraph.packages
    /\ stanza_available \in BOOLEAN
    /\ installed_translates = NoGraph.installed_translates
    /\ translations_from = NoGraph.translations_from
    /\ languages = NoGraph.languages
    /\ lastPackages = <<>>
    /\ calls = 0
    /\ ops = 0
    /\ raised = NoException
    /\ lookup = NoLookup
    /\ cache = EmptyCache
    /\ last = Idle
    /\ chunk_call = NoChunk
    /\ tags_call = NoTagsCall
    /\ inference_call = NoInference
    /\ hypothesis_objects = <<>>
    /\ eq_call = NoComparison
    /\ split_call = NoSplit
    /\ failing_call = NoFailingCall
    /\ gui_window = NoWindow
    /\ gui_threads = <<>>
    /\ gui_events = <<>>
    /\ pivot = NoPivot
    /\ threads = NoThreads
    /\ translator = NoTranslator
    /\ engines_built = 0
    /\ get_call = NoGet

SpecGraph == GraphInit /\ [][GraphNext]_vars

\* Packages are installed and uninstalled and get_translation_from_codes
\* is called.
SpecLookup == GraphInit /\ [][LookupNext]_vars

\* Only chunk is called; the loop of a call runs on by itself.
ChunkInit ==
    /\ packages = NoGraph.packages
    /\ stanza_available = TRUE
    /\ installed_translates = NoGraph.installed_translates
    /\ translations_from = NoGraph.translations_from
    /\ languages = NoGraph.languages
    /\ lastPackages = <<>>
    /\ calls = 0
    /\ ops = 0
    /\ raised = NoException
    /\ lookup = NoLookup
    /\ cache = EmptyCache
    /\ last = Idle
    /\ chunk_call = NoChunk
    /\ tags_call = NoTagsCall
    /\ inference_call = NoInference
    /\ hypothesis_objects = <<>>
    /\ eq_call = NoComparison
    /\ split_call = NoSplit
    /\ failing_call = NoFailingCall
    /\ gui_window = NoWindow
    /\ gui_threads = <<>>
    /\ gui_events = <<>>
    /\ pivot = NoPivot
    /\ threads = NoThreads
    /\ translator = NoTranslator
    /\ engines_built = 0
    /\ get_call = NoGet

SpecChunk ==
    ChunkInit /\ [][ChunkNext]_vars
      /\ WF_vars(ChunkIterate) /\ WF_vars(ChunkReturn)

\* Only translate_tags is called.
TagsInit ==
    /\ packages = NoGraph.packages
    /\ stanza_available = TRUE
    /\ installed_translates = NoGraph.installed_translates
    /\ translations_from = NoGraph.translations_from
    /\ languages = NoGraph.languages
    /\ lastPackages = <<>>
    /\ calls = 0
    /\ ops = 0
    /\ raised = NoException
    /\ lookup = NoLookup
    /\ cache = EmptyCache
    /\ last = Idle
    /\ chunk_call = NoChunk
    /\ tags_call = NoTagsCall
    /\ inference_call = NoInference
    /\ hypothesis_objects = <<>>
    /\ eq_call = NoComparison
    /\ split_call = NoSplit
    /\ failing_call = NoFailingCall
    /\ gui_window = NoWindow
    /\ gui_threads = <<>>
    /\ gui_events = <<>>
    /\ pivot = NoPivot
    /\ threads = NoThreads
    /\ translator = NoTranslator
    /\ engines_built = 0
    /\ get_call = NoGet

SpecTags == TagsInit /\ [][TagsNext]_vars

\* Only fewshot.parse_inference is called.
FewShotInit ==
    /\ packages = NoGraph.packages
    /\ stanza_available = TRUE
    /\ installed_translates = NoGraph.installed_translates
    /\ translations_from = NoGraph.translations_from
    /\ languages = NoGraph.languages
    /\ lastPackages = <<>>
    /\ calls = 0
    /\ ops = 0
    /\ raised = NoException
    /\ lookup = NoLookup
    /\ cache = EmptyCache
    /\ last = Idle
    /\ chunk_call = NoChunk
    /\ tags_call = NoTagsCall
    /\ inference_call = NoInference
    /\ hypothesis_objects = <<>>
    /\ eq_call = NoComparison
    /\ split_call = NoSplit
    /\ failing_call = NoFailingCall
    /\ gui_window = NoWindow
    /\ gui_threads = <<>>
    /\ gui_events = <<>>
    /\ pivot = NoPivot
    /\ threads = NoThreads
    /\ translator = NoTranslator
    /\ engines_built = 0
    /\ get_call = NoGet

SpecFewShot == FewShotInit /\ [][FewShotNext]_vars

\* Hypothesis objects are constructed and compared.
HypothesisInit ==
    /\ packages = NoGraph.packages
    /\ stanza_available = TRUE
    /\ installed_translates = NoGraph.installed_translates
    /\ translations_from = NoGraph.translations_from
    /\ languages = NoGraph.languages
    /\ lastPackages = <<>>
    /\ calls = 0
    /\ ops = 0
    /\ raised = NoException
    /\ lookup = NoLookup
    /\ cache = EmptyCache
    /\ last = Idle
    /\ chunk_call = NoChunk
    /\ tags_call = NoTagsCall
    /\ inference_call = NoInference
    /\ hypothesis_objects = <<>>
    /\ eq_call = NoComparison
    /\ split_call = NoSplit
    /\ failing_call = NoFailingCall
    /\ gui_window = NoWindow
    /\ gui_threads = <<>>
    /\ gui_events = <<>>
    /\ pivot = NoPivot
    /\ threads = NoThreads
    /\ translator = NoTranslator
    /\ engines_built = 0
    /\ get_call = NoGet

SpecHypothesis == HypothesisInit /\ [][HypothesisNext]_vars

\* Only networking.get is called; an attempt that can be made is made.
GetInit ==
    /\ packages = NoGraph.packages
    /\ stanza_available = TRUE
    /\ installed_translates = NoGraph.installed_translates
    /\ translations_from = NoGraph.translations_from
    /\ languages = NoGraph.languages
    /\ lastPackages = <<>>
    /\ calls = 0
    /\ ops = 0
    /\ raised = NoException
    /\ lookup = NoLookup
    /\ cache = EmptyCache
    /\ last = Idle
    /\ chunk_call = NoChunk
    /\ tags_call = NoTagsCall
    /\ inference_call = NoInference
    /\ hypothesis_objects = <<>>
    /\ eq_call = NoComparison
    /\ split_call = NoSplit
    /\ failing_call = NoFailingCall
    /\ gui_window = NoWindow
    /\ gui_threads = <<>>
    /\ gui_events = <<>>
    /\ pivot = NoPivot
    /\ threads = NoThreads
    /\ translator = NoTranslator
    /\ engines_built = 0
    /\ get_call = NoGet

SpecGet ==
    GetInit /\ [][GetNext]_vars
      /\ WF_vars(GetAttemptSucceeds \/ GetAttemptFails) /\ WF_vars(GetGiveUp)

\* Two threads call hypotheses on one shared CachedTranslation.
ThreadsInit ==
    /\ packages = NoGraph.packages
    /\ stanza_available = TRUE
    /\ installed_translates = NoGraph.installed_translates
    /\ translations_from = NoGraph.translations_from
    /\ languages = NoGraph.languages
    /\ lastPackages = <<>>
    /\ calls = 0
    /\ ops = 0
    /\ raised = NoException
    /\ lookup = NoLookup
    /\ cache = EmptyCache
    /\ last = Idle
    /\ chunk_call = NoChunk
    /\ tags_call = NoTagsCall
    /\ inference_call = NoInference
    /\ hypothesis_objects = <<>>
    /\ eq_call = NoComparison
    /\ split_call = NoSplit
    /\ failing_call = NoFailingCall
    /\ gui_window = NoWindow
    /\ gui_threads = <<>>
    /\ gui_events = <<>>
    /\ pivot = NoPivot
    /\ threads = NoThreads
    /\ translator = NoTranslator
    /\ engines_built = 0
    /\ get_call = NoGet

SpecThreads == ThreadsInit /\ [][ThreadsNext]_vars

\* One graph build after another, each in a fresh process; a loop that can
\* step does step.
PivotInit ==
    /\ packages = NoGraph.packages
    /\ stanza_available = TRUE
    /\ installed_translates = NoGraph.installed_translates
    /\ translations_from = NoGraph.translations_from
    /\ languages = NoGraph.languages
    /\ lastPackages = <<>>
    /\ calls = 0
    /\ ops = 0
    /\ raised = NoException
    /\ lookup = NoLookup
    /\ cache = EmptyCache
    /\ last = Idle
    /\ chunk_call = NoChunk
    /\ tags_call = NoTagsCall
    /\ inference_call = NoInference
    /\ hypothesis_objects = <<>>
    /\ eq_call = NoComparison
    /\ split_call = NoSplit
    /\ failing_call = NoFailingCall
    /\ gui_window = NoWindow
    /\ gui_threads = <<>>
    /\ gui_events = <<>>
    /\ pivot = NoPivot
    /\ threads = NoThreads
    /\ translator = NoTranslator
    /\ engines_built = 0
    /\ get_call = NoGet

SpecPivot ==
    PivotInit /\ [][PivotLoopNext]_vars
      /\ WF_vars(PivotNextLanguage) /\ WF_vars(PivotWhile) /\ WF_vars(PivotStep)

\* The user requests translations; every started worker runs to its end
\* and the GUI thread keeps delivering signals.
GuiInit ==
    /\ packages = NoGraph.packages
    /\ stanza_available = TRUE
    /\ installed_translates = NoGraph.installed_translates
    /\ translations_from = NoGraph.translations_from
    /\ languages = NoGraph.languages
    /\ lastPackages = <<>>
    /\ calls = 0
    /\ ops = 0
    /\ raised = NoException
    /\ lookup = NoLookup
    /\ cache = EmptyCache
    /\ last = Idle
    /\ chunk_call = NoChunk
    /\ tags_call = NoTagsCall
    /\ inference_call = NoInference
    /\ hypothesis_objects = <<>>
    /\ eq_call = NoComparison
    /\ split_call = NoSplit
    /\ failing_call = NoFailingCall
    /\ gui_window = NoWindow
    /\ gui_threads = <<>>
    /\ gui_events = <<>>
    /\ pivot = NoPivot
    /\ threads = NoThreads
    /\ translator = NoTranslator
    /\ engines_built = 0
    /\ get_call = NoGet

SpecGui ==
    GuiInit /\ [][GuiNext]_vars /\ WF_vars(ThreadRun) /\ WF_vars(GuiDeliver)

\* hypotheses is called on a CachedTranslation and on a composite while an
\* engine may raise.
FailingInit ==
    /\ packages = NoGraph.packages
    /\ stanza_available = TRUE
    /\ installed_translates = NoGraph.installed_translates
    /\ translations_from = NoGraph.translations_from
    /\ languages = NoGraph.languages
    /\ lastPackages = <<>>
    /\ calls = 0
    /\ ops = 0
    /\ raised = NoException
    /\ lookup = NoLookup
    /\ cache = EmptyCache
    /\ last = Idle
    /\ chunk_call = NoChunk
    /\ tags_call = NoTagsCall
    /\ inference_call = NoInference
    /\ hypothesis_objects = <<>>
    /\ eq_call = NoComparison
    /\ split_call = NoSplit
    /\ failing_call = NoFailingCall
    /\ gui_window = NoWindow
    /\ gui_threads = <<>>
    /\ gui_events = <<>>
    /\ pivot = NoPivot
    /\ threads = NoThreads
    /\ translator = NoTranslator
    /\ engines_built = 0
    /\ get_call = NoGet

SpecFailing == FailingInit /\ [][FailingNext]_vars

\* Only the sentence-splitting loop runs; a loop that can step does step.
SplitInit ==
    /\ packages = NoGraph.packages
    /\ stanza_available = TRUE
    /\ installed_translates = NoGraph.installed_translates
    /\ translations_from = NoGraph.translations_from
    /\ languages = NoGraph.languages
    /\ lastPackages = <<>>
    /\ calls = 0
    /\ ops = 0
    /\ raised = NoException
    /\ lookup = NoLookup
    /\ cache = EmptyCache
    /\ last = Idle
    /\ chunk_call = NoChunk
    /\ tags_call = NoTagsCall
    /\ inference_call = NoInference
    /\ hypothesis_objects = <<>>
    /\ eq_call = NoComparison
    /\ split_call = NoSplit
    /\ failing_call = NoFailingCall
    /\ gui_window = NoWindow
    /\ gui_threads = <<>>
    /\ gui_events = <<>>
    /\ pivot = NoPivot
    /\ threads = NoThreads
    /\ translator = NoTranslator
    /\ engines_built = 0
    /\ get_call = NoGet

SpecSplit ==
    SplitInit /\ [][SplitNext]_vars /\ WF_vars(SplitIterate) /\ WF_vars(SplitReturn)

(***************************************************************************)
(* Properties of the graph.                                                *)
(***************************************************************************)
LanguageSet == { languages[k] : k \in 1..Len(languages) }

\* L.get_translation(M) in the graph of the last call
Gets(L, M) == get_translation(translations_from[L], M.code)

IsTranslate(p) == p.type = "translate"

\* the (from_code, to_code) pairs of a package list
Pairs(pkgs) == { <<pkgs[i].from_code, pkgs[i].to_code>> : i \in 1..Len(pkgs) }

Step(edges, codes) == { e[2] : e \in { x \in edges : x[1] \in codes } }

RECURSIVE Closure(_, _)
Closure(edges, codes) ==
    LET more == codes \cup Step(edges, codes)
    IN  IF more = codes THEN codes ELSE Closure(edges, more)

\* a chain of one or more pairs leads from code a to code b
Chain(edges, a, b) == b \in Closure(edges, Step(edges, {a}))

\* the installed translate packages, and those of them the call loaded
InstalledPairs == Pairs(SelectSeq(lastPackages, IsTranslate))

LoadedPairs == Pairs(FilterPackages(lastPackages, stanza_available))

\* C1, as stated: in the graph of the first call, a chain of installed
\* translate packages from L.code to M.code gives L a translation to M.
C1_ChainOfInstalledPackages ==
    calls = 1 =>
      \A L \in LanguageSet, M \in LanguageSet :
        Chain(InstalledPairs, L.code, M.code) => Gets(L, M) # None

\* C1, amended: in the graph of the first call, a chain of the translate
\* packages that get_installed_languages loaded (all of them with stanza,
\* else those whose from_code an installed sbd package covers) from L.code
\* to M.code gives L a translation to M.
C1_ChainOfLoadedPackages ==
    calls = 1 =>
      \A L \in LanguageSet, M \in LanguageSet :
        Chain(LoadedPairs, L.code, M.code) => Gets(L, M) # None

\* en reaches de through es and fr, by a composite of a composite
C1_Witness ==
    /\ calls = 1
    /\ LoadedPairs = {<<"en", "es">>, <<"es", "fr">>, <<"fr", "de">>}
    /\ Gets(Lang(1, "en"), Lang(1, "de")).kind = "composite"

\* C2: in the graph of the first call, distinct languages L, M with no
\* chain of installed translate packages from L.code to M.code have no
\* translation from L to M.
C2_NoChainNoTranslation ==
    calls = 1 =>
      \A L \in LanguageSet, M \in LanguageSet :
        (L # M /\ ~Chain(InstalledPairs, L.code, M.code)) => Gets(L, M) = None

\* packages {(en,es),(fr,de)}: en has no translation to fr
C2_Witness ==
    /\ calls = 1
    /\ InstalledPairs = {<<"en", "es">>, <<"fr", "de">>}
    /\ LoadedPairs = InstalledPairs
    /\ Gets(Lang(1, "en"), Lang(1, "fr")) = None
    /\ Gets(Lang(1, "en"), Lang(1, "es")) # None

\* translate() of a translation of the graph on which no call was made yet
InstalledTranslate(t, s) ==
    IF t.kind = "cached"
    THEN FirstValue(CachedHypotheses(EmptyCache, Underlying(t), s, 1).hypotheses)
    ELSE Translate(t, s)

\* C3, as stated: every returned language L has a translation to itself
\* that returns every string unchanged.
C3_SelfTranslationIsIdentity ==
    calls >= 1 =>
      \A L \in LanguageSet :
        /\ Gets(L, L) # None
        /\ \A s \in Texts : InstalledTranslate(Gets(L, L), s) = s

\* the (L.code, M.code) pairs with a translation from L to M
TranslationPairs(langs, heap) ==
    { <<p[1].code, p[2].code>> :
        p \in { q \in langs \X langs : get_translation(heap[q[1]], q[2].code) # None } }

\* what a fresh process builds from the package list of the last call
FreshGraph == BuildGraph(lastPackages, stanza_available, 1, EmptyHeap, <<>>)

\* C4, as stated: the translation pairs of the returned graph are those a
\* fresh process builds from the same package list.
C4_SameAsFreshProcess ==
    calls >= 1 =>
      TranslationPairs(LanguageSet, translations_from) =
        TranslationPairs({ FreshGraph.languages[k] : k \in 1..Len(FreshGraph.languages) },
                         FreshGraph.heap)

(***************************************************************************)
(* Properties of hypotheses() and translate().                             *)
(***************************************************************************)
Called == last.op # "idle"

OnCached == Called /\ last.target = TheCached

OnComposite == Called /\ last.target.kind = "composite"

\* C5: hypotheses(text, n) returns exactly n entries, for the identity, the
\* remote, the composite and the cached translation (the translations they
\* wrap return n entries per call).
C5_ExactlyNEntries ==
    Called => Len(last.result) = last.n

\* a composite of two package translations asked for four hypotheses
C5_Witness ==
    /\ last.op = "hypotheses"
    /\ last.target = CompositeTranslation(EnEs, EsFr)
    /\ last.n = DefaultNumHypotheses
    /\ Len(last.text) = MaxLen
    /\ Len(last.result) = DefaultNumHypotheses

\* the n-by-n cross product of a composite call: entry <<i, j>> joins rank
\* i of t1 on the text with rank j of t2 on that value
CrossProduct(t1, t2, text, n) ==
    LET h1 == Hypotheses(t1, text, n)
    IN  [p \in (1..n) \X (1..n) |->
            LET h2 == Hypotheses(t2, h1[p[1]].value, n)[p[2]]
            IN  Hypothesis(h2.value, h1[p[1]].score + h2.score)]

Occurrences(list, h) == Cardinality({ k \in DOMAIN list : list[k] = h })

\* C6: a composite returns n members of the cross product, best first, and
\* no member left out scores higher than a returned one.
C6_BestOfCrossProduct ==
    (OnComposite /\ last.op = "hypotheses") =>
      LET cross == CrossProduct(last.target.parts[1], last.target.parts[2],
                                last.text, last.n)
          r == last.result
      IN  /\ Len(r) = last.n
          /\ \A k \in 1..(Len(r) - 1) : r[k].score >= r[k + 1].score
          /\ \A k \in DOMAIN r : Occurrences(r, r[k]) <= Occurrences(cross, r[k])
          /\ \A p \in DOMAIN cross :
               Occurrences(cross, cross[p]) > Occurrences(r, cross[p])
                 => \A k \in DOMAIN r : cross[p].score <= r[k].score

\* the best pair is rank 2 of en->es with rank 1 of es->fr: the result is
\* not the first entries in the order they were made
C6_Witness ==
    /\ last.op = "hypotheses"
    /\ last.target = CompositeTranslation(EnEs, EsFr)
    /\ last.text = <<"a">>
    /\ last.n = 2
    /\ last.result = <<Hypothesis(<<"c", "x">>, -1), Hypothesis(<<"c">>, -2)>>

\* the graph a first call builds from the packages [(en,es), (es,fr)]
EnEsFrGraph ==
    BuildGraph(<<TranslatePackage(1, "en", "es"), TranslatePackage(3, "es", "fr")>>,
               TRUE, 1, EmptyHeap, <<>>)

\* C7: the translate of a composite is t2.translate(t1.translate(text)),
\* and the en->fr translation of the graph built from [(en,es), (es,fr)]
\* is the composite of its en->es and es->fr translations.
C7_CompositeTranslateIsComposition ==
    /\ (OnComposite /\ last.op = "translate") =>
         last.value = Translate(last.target.parts[2],
                                Translate(last.target.parts[1], last.text))
    /\ LET heap == EnEsFrGraph.heap
           en_es == get_translation(heap[Lang(1, "en")], "es")
           es_fr == get_translation(heap[Lang(1, "es")], "fr")
       IN  /\ en_es.kind = "cached" /\ en_es.pkg = 1
           /\ es_fr.kind = "cached" /\ es_fr.pkg = 3
           /\ get_translation(heap[Lang(1, "en")], "fr") =
                CompositeTranslation(en_es, es_fr)

\* en->es turns a into b and es->fr turns b into c
C7_Witness ==
    /\ last.op = "translate"
    /\ last.target = CompositeTranslation(EnEs, EsFr)
    /\ last.text = <<"a", NL, "a">>
    /\ last.value = <<"c", NL, "c">>

\* C8: whatever calls came before, a call on a CachedTranslation returns
\* what one with an empty cache returns for the same text and n.
C8_CacheNeverChangesResult ==
    OnCached =>
      last.result = CachedHypotheses(EmptyCache, Underlying(TheCached),
                                     last.text, last.n).hypotheses

\* a call that took one paragraph from the cache and translated another
C8_Witness ==
    /\ OnCached
    /\ \E j \in DOMAIN last.found : last.found[j] = last.n
    /\ Len(last.calls) = 1
    /\ last.n = 2

\* C9: of two translate calls in a row on one CachedTranslation, the second
\* returns what the first did when the text is the same, and calls
\* underlying.hypotheses for no paragraph of the first text.
C9_SecondTranslateFromCache ==
    [][ ( /\ last.op = "translate" /\ last.target = TheCached
          /\ last'.op = "translate" /\ last'.target = TheCached )
        => /\ (last'.text = last.text => last'.value = last.value)
           /\ \A k \in DOMAIN last'.calls :
                ~InSeq(last'.calls[k].paragraph, split_into_paragraphs(last.text))
      ]_vars

\* a translate call of two paragraphs, both taken from the cache
C9_Witness ==
    /\ last.op = "translate"
    /\ last.target = TheCached
    /\ last.text = <<"a", NL>>
    /\ last.found = <<1, 1>>
    /\ last.calls = <<>>

\* C10: a cached entry whose length is not the n asked for is not reused;
\* a call with another n than the call before it calls
\* underlying.hypotheses(paragraph, n) for every paragraph of its text.
C10_OtherCountRecomputes ==
    [][ (last.target = TheCached /\ last'.target = TheCached)
        => LET paragraphs == split_into_paragraphs(last'.text)
               AllCalled == [j \in DOMAIN paragraphs |->
                               [paragraph |-> paragraphs[j],
                                num_hypotheses |-> last'.n]]
           IN  /\ \A j \in DOMAIN paragraphs :
                    last'.found[j] # last'.n => InSeq(AllCalled[j], last'.calls)
               /\ last.n # last'.n => last'.calls = AllCalled
      ]_vars

\* hypotheses(text, 4) finds an entry of length one for both paragraphs
\* (left by a call with n = 1) and translates both again
C10_Witness ==
    /\ last.op = "hypotheses"
    /\ last.target = TheCached
    /\ last.n = DefaultNumHypotheses
    /\ last.found = <<1, 1>>
    /\ last.calls = <<[paragraph |-> <<"a">>, num_hypotheses |-> DefaultNumHypotheses],
                      [paragraph |-> <<>>, num_hypotheses |-> DefaultNumHypotheses]>>

(***************************************************************************)
(* Properties of the cache and of the joined result.                       *)
(***************************************************************************)
Paragraphs(text) ==
    { split_into_paragraphs(text)[j] : j \in DOMAIN split_into_paragraphs(text) }

\* C11: after a CachedTranslation.hypotheses(text, n) call the keys of the
\* cache are exactly the paragraphs of text; entries of paragraphs seen
\* only in earlier calls are gone.
C11_CacheKeysAreTheParagraphs ==
    OnCached => DOMAIN cache = Paragraphs(last.text)

\* a call on the text "a" that found the entry "a" of an earlier call and
\* dropped another entry of that call
C11_Witness ==
    /\ OnCached
    /\ last.text = <<"a">>
    /\ last.dropped
    /\ last.found = <<last.n>>
    /\ DOMAIN cache = {<<"a">>}

\* the rank-i entries of the paragraphs' translations, in order
RankValues(translated_paragraphs, i) ==
    [j \in DOMAIN translated_paragraphs |-> translated_paragraphs[j][i].value]

RECURSIVE RankScoreSum(_, _, _)
RankScoreSum(translated_paragraphs, i, j) ==
    IF j > Len(translated_paragraphs) THEN 0
    ELSE translated_paragraphs[j][i].score
           + RankScoreSum(translated_paragraphs, i, j + 1)

\* C12: rank i of CachedTranslation.hypotheses(text, n) is the rank-i values
\* of the paragraphs joined by single newlines, with the summed score, and
\* has as many paragraphs as the text (the stand-in engine's outputs hold no
\* newline), leading empty paragraphs included.
C12_JoinKeepsEveryParagraph ==
    OnCached =>
      LET paragraphs == split_into_paragraphs(last.text)
          translated_paragraphs ==
              [j \in DOMAIN paragraphs |->
                  Hypotheses(Underlying(TheCached), paragraphs[j], last.n)]
      IN  \A i \in 1..last.n :
            /\ last.result[i].value =
                 combine_paragraphs(RankValues(translated_paragraphs, i))
            /\ last.result[i].score = RankScoreSum(translated_paragraphs, i, 1)
            /\ Len(split_into_paragraphs(last.result[i].value)) = Len(paragraphs)

(***************************************************************************)
(* Properties of chunk.                                                    *)
(***************************************************************************)
\* C13: every chunk call returns, whatever the probe returns; with the
\* probe that always returns "" and a q that is not all whitespace the
\* sentences returned are [q].
C13_ChunkTerminates ==
    /\ (chunk_call.pc = "loop") ~> (chunk_call.pc = "done")
    /\ [](( /\ chunk_call.pc = "done"
            /\ chunk_call.probe = "empty"
            /\ StripNonEmpty(chunk_call.q) )
          => chunk_call.sentences = <<chunk_call.q>>)

\* a call with the empty probe that returned the whole of " a "
C13_Witness ==
    /\ chunk_call.pc = "done"
    /\ chunk_call.probe = "empty"
    /\ chunk_call.q = <<Space, "a", Space>>
    /\ chunk_call.sentences = <<chunk_call.q>>

(***************************************************************************)
(* Properties of translate_tags.                                           *)
(***************************************************************************)
TagsDone == tags_call.pc = "done"

\* every node of before that is not translateable has its children in
\* after, at the same place, as they were
RECURSIVE NotTranslateableKept(_, _)
NotTranslateableKept(before, after) ==
    IF IsStr(before) THEN TRUE
    ELSE IF IsStr(after) \/ IsNone(after) THEN FALSE
    ELSE IF ~before.translateable THEN after.children = before.children
    ELSE /\ Len(after.children) = Len(before.children)
         /\ \A i \in DOMAIN before.children :
              NotTranslateableKept(before.children[i], after.children[i])

\* C14: translate_tags leaves the children of every node that is not
\* translateable as they were, wherever the node sits in the tree.
C14_NotTranslateableUnchanged ==
    TagsDone => NotTranslateableKept(tags_call.tag, tags_call.result)

\* C15: with a translation that is the identity on strings, the tree
\* returned has the text the tree had before the call.
C15_IdentityKeepsText ==
    (TagsDone /\ tags_call.translation = "identity")
      => TagText(tags_call.result) = TagText(tags_call.tag)

\* C16: translate_tags returns a tree of the structure the tree had before
\* the call, and never None.
C16_SameStructure ==
    TagsDone =>
      /\ ~IsNone(tags_call.result)
      /\ is_same_structure(tags_call.tag, tags_call.result)

\* a tree of depth two whose tag injection was taken, and one whose
\* injection was rejected for its structure
C16_Witness ==
    /\ TagsDone
    /\ tags_call.translation = "upper"
    /\ tags_call.tag = Tag(<<Str(<<"q">>), Tag(<<Str(<<"q">>)>>, TRUE)>>, TRUE)
    /\ ~IsNone(translate_tag_chunk(tags_call.translation, tags_call.tag))
    /\ tags_call.result = Tag(<<Str(<<"Q">>), Tag(<<Str(<<"Q">>)>>, TRUE)>>, TRUE)

(***************************************************************************)
(* Properties of package loading and of the lookups by code.               *)
(***************************************************************************)
IsLoadable(p) == p.type # "no metadata.json"

\* C17: a get_installed_languages call made with one package that cannot
\* be loaded completes, and returns the languages and translations of the
\* graph of the other packages.
C17_BadPackageSkipped ==
    [][ ( /\ calls' = calls + 1
          /\ Cardinality({ i \in 1..Len(packages) : ~IsLoadable(packages[i]) }) = 1 )
        => LET others == BuildGraph(SelectSeq(packages, IsLoadable), stanza_available,
                                    calls + 1, translations_from,
                                    installed_translates)
           IN  /\ raised' = NoException
               /\ { languages'[k].code : k \in 1..Len(languages') }
                    = { others.languages[k].code : k \in 1..Len(others.languages) }
               /\ TranslationPairs({ languages'[k] : k \in 1..Len(languages') },
                                   translations_from')
                    = TranslationPairs(
                        { others.languages[k] : k \in 1..Len(others.languages) },
                        others.heap)
      ]_vars

\* C18: get_translation_from_codes raises whenever it finds no translation
\* from from_code to to_code: it never returns None, and never an identity
\* translation for two different codes.
C18_LookupRaisesOrFinds ==
    (lookup.pc = "done" /\ lookup.raised = NoException) =>
      /\ lookup.result # None
      /\ lookup.result.kind = "identity" => lookup.from_code = lookup.to_code

\* the part of output before the first run of ten "=", else before the
\* first run of ten "-", else output
BeforeDelimiter(output) ==
    LET equals == Find(output, Repeat("=", DelimiterLength))
        dashes == Find(output, Repeat("-", DelimiterLength))
    IN  IF equals # -1 THEN SubSeq(output, 1, equals)
        ELSE IF dashes # -1 THEN SubSeq(output, 1, dashes)
        ELSE output

\* C19: parse_inference(output) returns the part of output that precedes
\* the first delimiter (ten "=", else ten "-"), and output unchanged when
\* neither delimiter occurs.
C19_ParseInferenceCutsAtDelimiter ==
    inference_call.pc = "done" =>
      inference_call.result = BeforeDelimiter(inference_call.output)

\* C20: two distinct Hypothesis objects compare equal with == exactly when
\* their value and their score are equal, and != is the opposite.
C20_EqualByValueAndScore ==
    (eq_call.pc = "done" /\ eq_call.left # eq_call.right) =>
      /\ eq_call.eq <=>
           hypothesis_objects[eq_call.left] = hypothesis_objects[eq_call.right]
      /\ eq_call.ne <=> ~eq_call.eq

Supported(url) == get_protocol(url) \in supported_protocols

AllFailed(outcomes) == \A k \in 1..Len(outcomes) : outcomes[k] = "error"

\* C21: get makes at most retry_count + 1 attempts, one after another until
\* the first success; it returns the data of the first successful attempt,
\* None after retry_count + 1 failures, makes no attempt for a URL whose
\* protocol is not http or https, and every call returns.
C21_GetRetriesUntilFirstSuccess ==
    /\ [](/\ Len(get_call.outcomes) <= get_call.retry_count + 1
          /\ AllFailed(SubSeq(get_call.outcomes, 1, Len(get_call.outcomes) - 1))
          /\ (get_call.pc = "done" /\ ~Supported(get_call.url)) =>
               (get_call.outcomes = <<>> /\ get_call.result = NoData)
          /\ (get_call.pc = "done" /\ Supported(get_call.url)) =>
               /\ get_call.outcomes # <<>>
               /\ get_call.retry_count = 0 => Len(get_call.outcomes) = 1
               /\ IF AllFailed(get_call.outcomes)
                  THEN /\ get_call.result = NoData
                       /\ Len(get_call.outcomes) = get_call.retry_count + 1
                  ELSE get_call.result = get_call.outcomes[Len(get_call.outcomes)])
    /\ (get_call.pc = "loop") ~> (get_call.pc = "done")

\* a call with two retries that failed three times and returned None
C21_Witness ==
    /\ get_call.pc = "done"
    /\ get_call.retry_count = 2
    /\ get_call.outcomes = <<"error", "error", "error">>
    /\ get_call.result = NoData

\* the caller has read self.cache and has not yet assigned self.cache
InCacheSection(t) == threads[t].pc # "idle" /\ threads[t].read

\* C22: the cache of a shared CachedTranslation is guarded by a lock: no two
\* hypotheses calls are at the same time between reading the old cache and
\* installing the rebuilt one.
C22_CacheSectionExclusive ==
    \A t \in Threads, u \in Threads :
      (t # u) => ~(InCacheSection(t) /\ InCacheSection(u))

\* C23: the ctranslate2.Translator of a PackageTranslation is constructed
\* at most once, whatever the interleaving of the hypotheses calls.
C23_EngineBuiltOnce == engines_built <= 1

PivotLanguages == { Lang(1, pivot.order[k]) : k \in 1..Len(pivot.order) }

\* the composite at place k of tf leads to a code no other entry leads to
OnlyEdgeTo(tf, k) ==
    \A m \in 1..Len(tf) : m # k => tf[m].to_lang.code # tf[k].to_lang.code

\* C24: the pivot loops terminate for every list of translate packages;
\* every composite a language receives leads to a code the language had
\* no edge to, so it has at most one composite per destination code; the
\* loops end with the closure get_installed_languages computes.
C24_PivotLoopTerminates ==
    /\ [](\A language \in PivotLanguages :
            \A k \in 1..Len(pivot.heap[language]) :
              pivot.heap[language][k].kind = "composite" =>
                OnlyEdgeTo(pivot.heap[language], k))
    /\ [](pivot.pc = "done" =>
            pivot.heap = BuildGraph(pivot.pkgs, TRUE, 1, EmptyHeap, <<>>).heap)
    /\ (pivot.pc # "idle") ~> (pivot.pc = "done")

\* a finished build in which a language received two composites
C24_Witness ==
    /\ pivot.pc = "done"
    /\ \E language \in PivotLanguages :
         \E k \in 1..Len(pivot.heap[language]), m \in 1..Len(pivot.heap[language]) :
           /\ k # m
           /\ pivot.heap[language][k].kind = "composite"
           /\ pivot.heap[language][m].kind = "composite"

\* C25: after get_installed_languages every language has at most one entry
\* in translations_from per destination code, whatever the translate
\* packages are.
C25_OneEdgePerDestination ==
    pivot.pc = "done" =>
      \A language \in PivotLanguages :
        \A k \in 1..Len(pivot.heap[language]) :
          OnlyEdgeTo(pivot.heap[language], k)

\* L.get_translation(N) is the CachedTranslation of package p
DirectEdgeOf(p, L, N) ==
    /\ Gets(L, N).kind = "cached"
    /\ Gets(L, N).key = <<p.from_code, p.to_code>>
    /\ Gets(L, N).pkg = p.dir

ProvidedBy(pkgs, L, N) ==
    { pkgs[k] : k \in { m \in 1..Len(pkgs) :
                          /\ pkgs[m].from_code = L.code
                          /\ pkgs[m].to_code = N.code } }

Unfinished == { t \in DOMAIN gui_threads : gui_threads[t].pc \in {"run", "translate"} }

\* created, never started, and still held by the window
Held == { t \in DOMAIN gui_threads :
            gui_threads[t].pc = "created" /\ gui_window.queued_translation = t }

\* C27: at most one worker is started and unfinished, at most one request
\* is held in queued_translation, and a translate() made while
\* worker_thread is set starts no thread and puts its request in
\* queued_translation.
C27_OneWorkerOneQueued ==
    /\ [](Cardinality(Unfinished) <= 1)
    /\ [](Cardinality(Held) <= 1)
    /\ [][(Len(gui_threads') > Len(gui_threads)
             /\ gui_window.worker_thread # NoThread) =>
            /\ Unfinished' = Unfinished
            /\ gui_window'.queued_translation = Len(gui_threads')
            /\ gui_window'.worker_thread = gui_window.worker_thread]_vars

\* a third request replaces the second while the first is still running
C27_Witness ==
    /\ Len(gui_threads) = 3
    /\ gui_threads[1].pc = "translate"
    /\ gui_threads[2].pc = "created"
    /\ gui_window.queued_translation = 3

Settled == Unfinished = {} /\ gui_events = <<>> /\ gui_window.worker_thread = NoThread

LatestFinished ==
    gui_threads # <<>> /\ gui_threads[Len(gui_threads)].pc = "finished"

\* C28: the most recent request is eventually run, the pane finally shows
\* the translation of its input, and a request that was replaced in
\* queued_translation never runs.
C28_LastRequestWins ==
    /\ (gui_threads # <<>>) ~> LatestFinished
    /\ []<>Settled
    /\ []((Settled /\ gui_threads # <<>>) =>
            /\ LatestFinished
            /\ gui_window.right_textEdit =
                  GuiTranslated(gui_threads[Len(gui_threads)].input_text))
    /\ [][\A t \in DOMAIN gui_threads :
            (gui_threads[t].pc = "created" /\ gui_window.queued_translation # t)
              => gui_threads'[t].pc = "created"]_vars

\* three requests were made, the second was replaced while queued and the
\* pane shows the translation of the third
C28_Witness ==
    /\ Settled
    /\ Len(gui_threads) = 3
    /\ gui_threads[2].pc = "created"
    /\ gui_threads[3].pc = "finished"
    /\ gui_threads[1].input_text # gui_threads[3].input_text
    /\ gui_window.right_textEdit = GuiTranslated(gui_threads[3].input_text)

\* the engine call engine_calls[k] raised
EngineRaisedAt(call, k) ==
    PackageRaises(PackageTranslation(En, Es, call.engine_calls[k].key),
                  call.engine_calls[k].input_text, call.fail)

\* C29: an exception raised by the underlying translation, or by a
\* component of a composite, reaches the caller as it was raised: the call
\* ends with the failing engine call, made once, no value is returned, a
\* call without a failing engine call raises nothing, and the cache of the
\* CachedTranslation is what it was before the call.
C29_ExceptionPropagates ==
    /\ [](\A k \in 1..Len(failing_call.engine_calls) :
            EngineRaisedAt(failing_call, k) <=>
              (k = Len(failing_call.engine_calls)
                 /\ failing_call.raised = EngineError))
    /\ [](failing_call.raised \in {NoException, EngineError})
    /\ [](failing_call.raised = EngineError =>
            /\ failing_call.engine_calls # <<>>
            /\ failing_call.value = <<>>)
    /\ [][(failing_call' # failing_call /\ failing_call'.raised # NoException)
            => cache' = cache]_vars

\* the second paragraph of a text raised after the first was translated,
\* with an entry in the cache
C29_Witness ==
    /\ failing_call.target = TheCached
    /\ failing_call.raised = EngineError
    /\ Len(failing_call.engine_calls) = 2
    /\ cache # EmptyCache

\* C30: every pass of the sentence-splitting loop advances start_index by
\* at least one character, whatever the boundary detection returns, so the
\* loop terminates.
C30_SplitLoopAdvances ==
    [][Len(split_call'.sentences) > Len(split_call.sentences)
         => split_call'.start_index > split_call.start_index]_vars

====
